---- MODULE Spec2Model ----
(***************************************************************************)
(* Model of the background worker of localm:                               *)
(*   - ModelCache (src/worker/model-cache.js) and the worker's loadModel   *)
(*     and runPrompt handlers (src/worker/boot-worker.js);                 *)
(*   - listChatModelsIterator (src/worker/list-chat-models.js).            *)
(* JavaScript's run-to-completion scheduling is modelled explicitly: a     *)
(* macrotask (a received message, the completion of an external promise)   *)
(* runs only when the microtask queue is empty, and promise reactions run  *)
(* from the microtask queue in registration order.                         *)
(***************************************************************************)
EXTENDS Integers, Sequences, FiniteSets, TLC

\* ------------------------------------------------------------------ bounds
MaxRequests == 3
MaxLoads == 3

\* --------------------------------------------------------------- constants
Models == {"m1", "m2"}
KnownModel0 == "m1"
Undefined == "undefined"

VARIABLES
  cache,          \* ModelCache.cache: modelName -> absent | promise | model
  backend,        \* ModelCache.backend
  webllmProbe,    \* ModelCache.webllmProbe
  hasWebLLM,      \* environment: are the WebLLM APIs present
  selectedModel,  \* bootWorker's selectedModel
  loads,          \* the loader promises created by _loadModelAndStore
  requests,       \* the loadModel / runPrompt messages received
  microtasks,     \* the promise-reaction job queue
  probeEvals,     \* number of times the probe body was evaluated
  tier1Attempts,  \* modelName -> number of CreateMLCEngine calls
  tier2Seqs,      \* modelName -> number of _loadTransformersModelNow calls
  epoch           \* modelName -> number of loader promises rejected

cacheVars == <<cache, backend, webllmProbe, hasWebLLM, selectedModel, loads,
               requests, microtasks, probeEvals, tier1Attempts, tier2Seqs, epoch>>

VARIABLES
  params,               \* the options object of listChatModelsIterator
  gpc,                  \* position of the generator body
  lattempt,             \* listing: attempt counter of the retry loop
  listing,              \* accumulated listing
  survivors,            \* prefilter survivors
  idx,                  \* shared index cursor of the pool
  processed,            \* number of survivors whose worker iteration has finished
  events,               \* event queue between workers and generator
  resolveNext,          \* is the generator parked in nextEvent()
  results,              \* classification entries
  errors,               \* per-candidate errors
  yielded,              \* every value the generator has yielded, in order
  returnRequested,      \* iterator.return() was called and is queued
  inFlight,             \* AbortControllers registered in inFlight (by worker)
  aborted,              \* controllers whose abort() was called
  pool,                 \* worker -> position of the worker's async function
  effectiveConcurrency,
  availableTokens,
  tokenWaiters,
  recent429s,           \* timestamps of recent 429 answers
  rateLimitedUntil,
  counters,
  restoreInterval,      \* is the setInterval timer armed
  clock,                \* Date.now(), in units of the restore interval (5 s)
  faults                \* number of 429 answers and network failures of metadata requests

iterVars == <<params, gpc, lattempt, listing, survivors, idx, processed, events,
              resolveNext, results, errors, yielded, returnRequested, inFlight, aborted,
              pool, effectiveConcurrency, availableTokens, tokenWaiters, recent429s,
              rateLimitedUntil, counters, restoreInterval, clock, faults>>

\* the main thread's side of listChatModels calls and the worker's side of them
VARIABLES
  calls,      \* per call id: the caller's promise, its entry in pending, the resolved flag
  tasks,      \* per call id: the worker's handleListChatModels activation
  toWorker,   \* messages posted by the main thread, not yet handled
  toMain      \* messages posted by the worker, not yet handled

connVars == <<calls, tasks, toWorker, toMain>>

\* the arguments and the return value of one call of a pure function
VARIABLES
  argRawModel,       \* classifyModel: the rawModel argument
  argOutcome,        \* the answer that ended the metadata probe of that model
  retEntry,          \* classifyModel: the returned entry
  argListing,        \* prefilter: the listing it runs over
  argMaxCandidates,  \* prefilter: the maxCandidates option
  retSurvivors       \* prefilter: the survivors it produced

pureVars == <<argRawModel, argOutcome, retEntry, argListing, argMaxCandidates, retSurvivors>>

vars == <<cacheVars, iterVars, connVars, pureVars>>

\* ----------------------------------------------------------------- helpers
Range(s) == {s[i] : i \in 1..Len(s)}

IndexOf(s, x) ==
  IF x \in Range(s) THEN CHOOSE i \in 1..Len(s) : s[i] = x /\ \A j \in 1..(i-1) : s[j] # x
  ELSE 0

\* Array.prototype.slice(start) with a 0-based start, negative counting from the end
SliceFrom(s, start) ==
  LET from == IF start < 0 THEN (IF Len(s) + start < 0 THEN 0 ELSE Len(s) + start) ELSE start
  IN  IF from >= Len(s) THEN <<>> ELSE SubSeq(s, from + 1, Len(s))

NoHandle == [load |-> 0, tier |-> "none", device |-> "none"]
Absent == [kind |-> "absent", load |-> 0, handle |-> NoHandle]
PromiseEntry(k) == [kind |-> "promise", load |-> k, handle |-> NoHandle]
ModelEntry(h) == [kind |-> "model", load |-> h.load, handle |-> h]

\* ------------------------------------------------- strings of the smoke test
Space == " "
Letter == "a"
\* responses of chat.completions.create: content strings as character sequences
TestTexts == {<<>>, <<Space>>, <<Space, Space>>, <<Letter>>, <<Space, Letter>>}

RECURSIVE TrimStart(_)
TrimStart(s) == IF s # <<>> /\ Head(s) = Space THEN TrimStart(Tail(s)) ELSE s

RECURSIVE TrimEnd(_)
TrimEnd(s) ==
  IF s # <<>> /\ s[Len(s)] = Space THEN TrimEnd(SubSeq(s, 1, Len(s) - 1)) ELSE s

Trim(s) == TrimEnd(TrimStart(s))

\* model-cache.js:104  !testText || String(testText).trim() === ''
SmokeTestEmpty(testText) == testText = <<>> \/ Trim(testText) = <<>>

\* --------------------------------------------------------------- ModelCache
\* model-cache.js:125-127 the documented candidate order
DocumentedCandidates(b) ==
  SliceFrom(<<"webgpu", "gpu", "wasm">>,
            IndexOf(<<"webgpu", "gpu", "wasm">>, IF b = Undefined THEN "wasm" ELSE b) - 1)

\* model-cache.js:128 the list the loop actually iterates
Candidates(b) == <<"auto">>

\* model-cache.js:13 webllmProbe = undefined
NoProbe == [evaluated |-> FALSE, possible |-> FALSE]

\* mutation: the cache lookup is skipped, every call loads
CacheHitNever(m) == FALSE

\* model-cache.js:35  this.cache.get(modelName) || ...
CacheHit(m) == cache[m].kind # "absent"

\* mutation: the memoised probe is never reused
ProbeCachedNever == FALSE

\* model-cache.js:42  if (this.webllmProbe) return this.webllmProbe
ProbeCached == webllmProbe.evaluated

\* model-cache.js:41-54
ProbeResult == IF ProbeCached THEN webllmProbe ELSE [evaluated |-> TRUE, possible |-> hasWebLLM]

\* mutation: the fulfilment reaction drops the entry
OnLoaderResolvedDelete(c, m, h) == [c EXCEPT ![m] = Absent]

\* model-cache.js:69-72 the loader's fulfilment reaction
OnLoaderResolved(c, m, h) == [c EXCEPT ![m] = ModelEntry(h)]

\* mutation: the whole map is cleared
DeleteEntryClear(c, m) == [n \in Models |-> Absent]

\* model-cache.js:74  this.cache.delete(modelName)
DeleteEntry(c, m) == [c EXCEPT ![m] = Absent]

\* mutation: the rejection reaction leaves the rejected promise in the cache
OnLoaderRejectedKeep(c, m) == c

\* model-cache.js:73-75 the loader's rejection reaction
OnLoaderRejected(c, m) == DeleteEntry(c, m)

\* mutation: the Tier-1 catch rethrows
AfterWebLLMFailureRethrow == "reject"

\* model-cache.js:113-120 what a Tier-1 failure leads to
AfterWebLLMFailure == "tier2"

NewLoad(m, pc) ==
  [modelName |-> m, pc |-> pc, dev |-> IF pc = "loadModelCore" THEN 1 ELSE 0,
   state |-> "pending", result |-> NoHandle, tried |-> <<>>, waiters |-> <<>>,
   t1failed |-> FALSE, smoke |-> <<>>]

NewRequest(type, m, aw) ==
  [type |-> type, modelName |-> m, pc |-> "awaitGetModel", awaited |-> aw,
   epochAt |-> epoch[m], outcome |-> "pending", pipe |-> NoHandle, err |-> 0]

\* settle loader promise k: its reactions are queued in registration order,
\* the cache's own then() first (registered at model-cache.js:68), then every
\* caller that awaited the promise
SettleJobs(k, l) ==
  <<[job |-> "then", id |-> k]>> \o [i \in 1..Len(l.waiters) |-> [job |-> "resume", id |-> l.waiters[i]]]

TypeOK ==
  /\ cache \in [Models -> [kind : {"absent", "promise", "model"}, load : 0..(MaxLoads + 1),
                           handle : [load : 0..(MaxLoads + 1), tier : {"none", "webllm", "transformers"},
                                     device : {"none", "auto", "webgpu", "gpu", "wasm"}]]]
  /\ backend \in {Undefined, "webgpu", "gpu", "wasm", "auto"}
  /\ hasWebLLM \in BOOLEAN
  /\ selectedModel \in Models
  /\ Len(loads) <= MaxLoads + 1
  /\ Len(requests) <= MaxRequests + 1

\* model-cache.js:8-15 the ModelCache as constructed by bootWorker
CacheInit ==
  /\ cache = [m \in Models |-> Absent]
  /\ backend = Undefined
  /\ webllmProbe = NoProbe
  /\ hasWebLLM \in BOOLEAN
  /\ selectedModel = KnownModel0
  /\ loads = <<>>
  /\ requests = <<>>
  /\ microtasks = <<>>
  /\ probeEvals = 0
  /\ tier1Attempts = [m \in Models |-> 0]
  /\ tier2Seqs = [m \in Models |-> 0]
  /\ epoch = [m \in Models |-> 0]

\* model-cache.js:34-36, 61-79, 81-91 and 123-134: getModel called for message r
\* of the given type; det is what detectTransformersBackend would return
getModel(type, m, det) ==
  LET r == Len(requests) + 1 IN
  IF CacheHit(m)
  THEN \* the entry (pending promise or ready model) is returned and awaited
    LET e == cache[m] IN
    /\ requests' = Append(requests, NewRequest(type, m, e.load))
    /\ IF e.kind = "promise" /\ loads[e.load].state = "pending"
       THEN /\ loads' = [loads EXCEPT ![e.load].waiters = Append(@, r)]
            /\ microtasks' = microtasks
       ELSE /\ loads' = loads
            /\ microtasks' = Append(microtasks, [job |-> "resume", id |-> r])
    /\ UNCHANGED <<cache, backend, webllmProbe, probeEvals, tier1Attempts, tier2Seqs>>
  ELSE \* _loadModelAndStore
    LET k == Len(loads) + 1
        probe == ProbeResult
        b == IF backend = Undefined THEN det ELSE backend
    IN
    /\ Len(loads) < MaxLoads
    /\ backend' = b
    /\ webllmProbe' = probe
    /\ probeEvals' = IF ProbeCached THEN probeEvals ELSE probeEvals + 1
    /\ IF probe.possible
       THEN /\ tier1Attempts' = [tier1Attempts EXCEPT ![m] = @ + 1]
            /\ tier2Seqs' = tier2Seqs
            /\ loads' = Append(loads, [NewLoad(m, "CreateMLCEngine") EXCEPT !.waiters = <<r>>])
       ELSE /\ tier1Attempts' = tier1Attempts
            /\ tier2Seqs' = [tier2Seqs EXCEPT ![m] = @ + 1]
            /\ loads' = Append(loads, [NewLoad(m, "loadModelCore") EXCEPT !.waiters = <<r>>])
    /\ cache' = [cache EXCEPT ![m] = PromiseEntry(k)]
    /\ requests' = Append(requests, NewRequest(type, m, k))
    /\ microtasks' = microtasks

\* boot-worker.js:40-48 a loadModel message arrives
ReceiveLoadModel ==
  /\ UNCHANGED <<iterVars, connVars, pureVars>>
  /\ microtasks = <<>>
  /\ Len(requests) < MaxRequests
  /\ \E m \in Models, det \in {"webgpu", "gpu", "wasm"} : getModel("loadModel", m, det)
  /\ UNCHANGED <<hasWebLLM, selectedModel, epoch>>

\* boot-worker.js:49-50, 59-61 a runPrompt message arrives (modelName defaults to selectedModel)
ReceiveRunPrompt ==
  /\ UNCHANGED <<iterVars, connVars, pureVars>>
  /\ microtasks = <<>>
  /\ Len(requests) < MaxRequests
  /\ \E m \in {selectedModel} \cup Models, det \in {"webgpu", "gpu", "wasm"} : getModel("runPrompt", m, det)
  /\ UNCHANGED <<hasWebLLM, selectedModel, epoch>>

\* the loader promise k is fulfilled with the engine h after the smoke test answered text
Resolve(k, h, text) ==
  LET l == loads[k] IN
  /\ loads' = [loads EXCEPT ![k] = [l EXCEPT !.pc = "settled", !.state = "resolved", !.result = h,
                                             !.smoke = text]]
  /\ microtasks' = microtasks \o SettleJobs(k, l)
  /\ epoch' = epoch

\* the loader promise k is rejected
Reject(k, tried) ==
  LET l == loads[k] IN
  /\ loads' = [loads EXCEPT ![k] = [l EXCEPT !.pc = "settled", !.state = "rejected", !.tried = tried,
                                             !.t1failed = (l.pc # "loadModelCore" \/ l.t1failed)]]
  /\ microtasks' = microtasks \o SettleJobs(k, l)
  /\ epoch' = [epoch EXCEPT ![l.modelName] = @ + 1]

\* model-cache.js:119-134 fall through to _loadTransformersModelNow
StartTier2(k) ==
  LET l == loads[k] IN
  /\ loads' = [loads EXCEPT ![k] = [l EXCEPT !.pc = "loadModelCore", !.dev = 1, !.t1failed = TRUE]]
  /\ tier2Seqs' = [tier2Seqs EXCEPT ![l.modelName] = @ + 1]
  /\ UNCHANGED <<microtasks, epoch>>

\* model-cache.js:113-120 the catch of the Tier-1 try block
WebLLMFailed(k) ==
  IF AfterWebLLMFailure = "tier2"
  THEN StartTier2(k)
  ELSE Reject(k, <<>>) /\ tier2Seqs' = tier2Seqs

\* model-cache.js:89-91 CreateMLCEngine settles
CreateMLCEngineDone ==
  /\ UNCHANGED <<iterVars, connVars, pureVars>>
  /\ microtasks = <<>>
  /\ \E k \in 1..Len(loads), ok \in BOOLEAN :
       /\ loads[k].pc = "CreateMLCEngine"
       /\ IF ok
          THEN /\ loads' = [loads EXCEPT ![k].pc = "smokeTest"]
               /\ UNCHANGED <<microtasks, epoch, tier2Seqs>>
          ELSE WebLLMFailed(k)
  /\ UNCHANGED <<cache, backend, webllmProbe, hasWebLLM, selectedModel, requests,
                 probeEvals, tier1Attempts>>

\* model-cache.js:96-112 the smoke-test completion settles
SmokeTestDone ==
  /\ UNCHANGED <<iterVars, connVars, pureVars>>
  /\ microtasks = <<>>
  /\ \E k \in 1..Len(loads), throws \in BOOLEAN, testText \in TestTexts :
       /\ loads[k].pc = "smokeTest"
       /\ throws => testText = <<>>
       /\ IF throws \/ SmokeTestEmpty(testText)
          THEN WebLLMFailed(k)
          ELSE /\ Resolve(k, [load |-> k, tier |-> "webllm", device |-> "none"], testText)
               /\ tier2Seqs' = tier2Seqs
  /\ UNCHANGED <<cache, backend, webllmProbe, hasWebLLM, selectedModel, requests,
                 probeEvals, tier1Attempts>>

\* model-cache.js:132-153 loadModelCore for the current candidate settles
LoadModelCoreDone ==
  /\ UNCHANGED <<iterVars, connVars, pureVars>>
  /\ microtasks = <<>>
  /\ \E k \in 1..Len(loads), ok \in BOOLEAN :
       LET l == loads[k]
           cands == Candidates(backend)
           device == cands[l.dev]
           h == [load |-> k, tier |-> "transformers", device |-> device]
       IN
       /\ l.pc = "loadModelCore"
       /\ IF ok
          THEN /\ backend' = device
               /\ cache' = [cache EXCEPT ![l.modelName] = ModelEntry(h)]
               /\ loads' = [loads EXCEPT ![k] = [l EXCEPT !.pc = "settled", !.state = "resolved",
                                                          !.result = h, !.tried = Append(@, device)]]
               /\ microtasks' = microtasks \o SettleJobs(k, l)
               /\ epoch' = epoch
          ELSE /\ UNCHANGED <<backend, cache>>
               /\ IF l.dev < Len(cands)
                  THEN /\ loads' = [loads EXCEPT ![k] = [l EXCEPT !.dev = @ + 1, !.tried = Append(@, device)]]
                       /\ UNCHANGED <<microtasks, epoch>>
                  ELSE Reject(k, Append(l.tried, device))
  /\ UNCHANGED <<webllmProbe, hasWebLLM, selectedModel, requests, probeEvals,
                 tier1Attempts, tier2Seqs>>

\* model-cache.js:68-76 the reaction registered by _loadModelAndStore
ThenCallback(k) ==
  LET l == loads[k] IN
  /\ cache' = IF l.state = "resolved"
              THEN OnLoaderResolved(cache, l.modelName, l.result)
              ELSE OnLoaderRejected(cache, l.modelName)
  /\ UNCHANGED <<requests, selectedModel>>

\* boot-worker.js:65 how the handle is invoked: always pipe(prompt, options)
CallConvention(h) == "pipeline"

\* the result of invoking handle h with the given call convention
Invoke(h, convention) ==
  IF h.tier = "transformers" /\ convention = "pipeline" THEN "inference"
  ELSE IF h.tier = "webllm" /\ convention = "engine" THEN "inference"
  ELSE "error_dispatch"

\* boot-worker.js:43-48 and 61-71 the continuation after `await modelCache.getModel`
Resume(r) ==
  LET q == requests[r]
      l == loads[q.awaited]
  IN
  /\ q.pc = "awaitGetModel"
  /\ IF l.state = "rejected"
     THEN /\ requests' = [requests EXCEPT ![r] = [q EXCEPT !.pc = "done", !.outcome = "error_load",
                                                          !.err = q.awaited]]
          /\ selectedModel' = selectedModel
     ELSE IF q.type = "loadModel"
     THEN /\ requests' = [requests EXCEPT ![r] = [q EXCEPT !.pc = "done", !.outcome = "loaded",
                                                          !.pipe = l.result]]
          /\ selectedModel' = q.modelName
     ELSE /\ selectedModel' = selectedModel
          /\ LET res == Invoke(l.result, CallConvention(l.result)) IN
             IF res = "inference"
             THEN requests' = [requests EXCEPT ![r] = [q EXCEPT !.pc = "inference", !.pipe = l.result]]
             ELSE requests' = [requests EXCEPT ![r] = [q EXCEPT !.pc = "done", !.outcome = res,
                                                                !.pipe = l.result]]
  /\ cache' = cache

\* one promise reaction runs
RunMicrotask ==
  /\ UNCHANGED <<iterVars, connVars, pureVars>>
  /\ microtasks # <<>>
  /\ LET j == Head(microtasks) IN
       IF j.job = "then" THEN ThenCallback(j.id) ELSE Resume(j.id)
  /\ microtasks' = Tail(microtasks)
  /\ UNCHANGED <<backend, webllmProbe, hasWebLLM, loads, probeEvals, tier1Attempts,
                 tier2Seqs, epoch>>

\* boot-worker.js:65-70 the awaited inference call settles
InferenceDone ==
  /\ UNCHANGED <<iterVars, connVars, pureVars>>
  /\ microtasks = <<>>
  /\ \E r \in 1..Len(requests), ok \in BOOLEAN :
       /\ requests[r].pc = "inference"
       /\ requests' = [requests EXCEPT ![r].pc = "done",
                                       ![r].outcome = IF ok THEN "text" ELSE "error_inference"]
  /\ UNCHANGED <<cache, backend, webllmProbe, hasWebLLM, selectedModel, loads, microtasks,
                 probeEvals, tier1Attempts, tier2Seqs, epoch>>

\* =================================================== listChatModelsIterator
\* ------------------------------------------------------------------ bounds
MaxClock == 11
MaxBusyClock == 2
MaxFaults == 2
MaxPage == 2

\* --------------------------------------------------------------- constants
RETRIES == 3
RATE_THRESHOLD == 10
RESTORE_INTERVAL_MS == 5000
RATE_WINDOW_MS == 30000
BACKOFF_WINDOW_MS == 30000
\* the clock counts restore intervals, so the windows are expressed in that unit
RATE_WINDOW == RATE_WINDOW_MS \div RESTORE_INTERVAL_MS
BACKOFF_WINDOW == BACKOFF_WINDOW_MS \div RESTORE_INTERVAL_MS
MAX_LISTING_CAP == 5000
Null == "null"
NoArch == [isArray |-> FALSE, items |-> <<>>]

\* the option objects the iterator is called with
ParamChoices ==
  [maxCandidates : {2, 3}, concurrency : {1, 2}, maxListing : {3}]

Min(a, b) == IF a < b THEN a ELSE b
Max(a, b) == IF a > b THEN a ELSE b

\* list-chat-models.js:232
MAX_TOTAL_TO_FETCH == Min(params.maxListing, MAX_LISTING_CAP)

\* list-chat-models.js:241  Math.max(1, concurrency || 1)
initialConcurrency == Max(1, IF params.concurrency = 0 THEN 1 ELSE params.concurrency)

\* the remote catalogue the listing endpoint serves
Catalog ==
  << [modelId |-> "org/gen", pipeline_tag |-> "text-generation", siblings |-> <<"tokenizer.json">>],
     [modelId |-> "sentence-transformers/emb", pipeline_tag |-> "feature-extraction", siblings |-> <<"vocab.txt">>],
     [modelId |-> "org/plain", pipeline_tag |-> "", siblings |-> <<"README.md", "vocab.txt">>],
     [modelId |-> "org/lone-surrogate", pipeline_tag |-> "Text-Generation", siblings |-> <<>>],
     [modelId |-> "org/extra", pipeline_tag |-> "text-generation", siblings |-> <<"merges.txt">>] >>

\* identifiers for which encodeURIComponent throws URIError (lone surrogate)
MalformedIds == {"org/lone-surrogate"}

\* list-chat-models.js:441
denyPipeline == {"feature-extraction", "fill-mask", "sentence-similarity", "masked-lm"}

\* list-chat-models.js:450  modelId.includes('sentence-transformers')
IncludesSentenceTransformers(id) ==
  id \in {"sentence-transformers/emb", "org/sentence-transformers-mini"}

\* list-chat-models.js:460  /tokenizer|vocab|merges|sentencepiece/i.test(name)
TokenizerName(name) == name \in {"tokenizer.json", "vocab.txt", "merges.txt", "sentencepiece.bpe.model"}

\* list-chat-models.js:464  pipeline.toLowerCase().includes('text-generation')
LowerIncludesTextGeneration(tag) ==
  tag \in {"text-generation", "Text-Generation", "text2text-generation"}

\* list-chat-models.js:394  pipeline.startsWith('text-generation')
StartsWithTextGeneration(tag) == tag \in {"text-generation"}

\* mutation: the tokenizer check is never waived
PrefilterKeepsTokenizerOnly(m) ==
  LET pipeline == m.pipeline_tag
      hasTokenizer == \E j \in 1..Len(m.siblings) : TokenizerName(m.siblings[j])
  IN
  /\ ~(pipeline # "" /\ pipeline \in denyPipeline)
  /\ ~(m.modelId # "" /\ IncludesSentenceTransformers(m.modelId))
  /\ hasTokenizer

\* list-chat-models.js:445-464 does the prefilter keep entry m
PrefilterKeeps(m) ==
  LET pipeline == m.pipeline_tag
      hasTokenizer == \E j \in 1..Len(m.siblings) : TokenizerName(m.siblings[j])
  IN
  /\ ~(pipeline # "" /\ pipeline \in denyPipeline)
  /\ ~(m.modelId # "" /\ IncludesSentenceTransformers(m.modelId))
  /\ ~(~hasTokenizer /\ (pipeline = "" \/ ~LowerIncludesTextGeneration(pipeline)))

RECURSIVE Prefilter(_, _, _)

\* mutation: the loop never breaks at maxCandidates
PrefilterUncapped(lst, acc, maxCandidates) == acc \o SelectSeq(lst, PrefilterKeeps)

\* list-chat-models.js:442-467 the prefilter loop over the listing
Prefilter(lst, acc, maxCandidates) ==
  IF lst = <<>> \/ Len(acc) >= maxCandidates THEN acc
  ELSE Prefilter(Tail(lst), IF PrefilterKeeps(Head(lst)) THEN Append(acc, Head(lst)) ELSE acc,
                 maxCandidates)

\* list-chat-models.js:378-379
deny == {"bert", "roberta", "distilbert", "electra", "albert", "deberta", "mobilebert",
         "convbert", "sentence-transformers"}
allow == {"gpt2", "gptj", "gpt_neox", "llama", "qwen", "mistral", "phi", "gpt", "t5", "bart",
          "pegasus"}

\* String.prototype.toLowerCase on the architecture names that occur
ToLowerCase(a) ==
  CASE a = "BERT" -> "bert"
    [] a = "Llama" -> "llama"
    [] a = "LlamaForCausalLM" -> "llamaforcausallm"
    [] OTHER -> a

\* the config.json bodies the metadata endpoint serves
Configs ==
  { [model_type |-> "llama", architectures |-> NoArch],
    [model_type |-> Null, architectures |-> [isArray |-> TRUE, items |-> <<"LlamaForCausalLM", "BERT">>]] }

FetchResult(status, code, mt, arch) ==
  [status |-> status, code |-> code, model_type |-> mt, architectures |-> arch]

\* mutation: only 401 is an auth answer, 403 is any other status
ConfigResult401Only(resp, cfg) ==
  CASE resp = "200" -> FetchResult("ok", 200, cfg.model_type, cfg.architectures)
    [] resp = "401" -> FetchResult("auth", 401, Null, NoArch)
    [] resp = "404" -> FetchResult("no-config", 0, Null, NoArch)
    [] resp = "403" -> FetchResult("error", 403, Null, NoArch)
    [] resp = "500" -> FetchResult("error", 500, Null, NoArch)
    [] OTHER -> FetchResult("error", 0, Null, NoArch)

\* list-chat-models.js:337, 339, 350, 354, 363 what fetchConfigForModel returns when
\* resp is the answer that ends the probe: 200 with body cfg, 401 or 403, 404 on the
\* last path, another status, or a network failure on the last attempt
ConfigResult(resp, cfg) ==
  CASE resp = "200" -> FetchResult("ok", 200, cfg.model_type, cfg.architectures)
    [] resp = "401" -> FetchResult("auth", 401, Null, NoArch)
    [] resp = "403" -> FetchResult("auth", 403, Null, NoArch)
    [] resp = "404" -> FetchResult("no-config", 0, Null, NoArch)
    [] resp = "500" -> FetchResult("error", 500, Null, NoArch)
    [] OTHER -> FetchResult("error", 0, Null, NoArch)

RECURSIVE ScanArch(_)

\* mutation: the names are compared without being lower-cased
ScanArchCaseSensitive(items) ==
  LET hits == {i \in 1..Len(items) : items[i] \in allow \cup deny} IN
  IF hits = {} THEN [classification |-> "unknown", confidence |-> "low"]
  ELSE LET f == CHOOSE i \in hits : \A j \in hits : i <= j IN
       IF items[f] \in allow THEN [classification |-> "gen", confidence |-> "high"]
       ELSE [classification |-> "encoder", confidence |-> "high"]

\* list-chat-models.js:382-390 scan of the architectures array
ScanArch(items) ==
  IF items = <<>> THEN [classification |-> "unknown", confidence |-> "low"]
  ELSE LET a == ToLowerCase(Head(items)) IN
       IF a \in allow THEN [classification |-> "gen", confidence |-> "high"]
       ELSE IF a \in deny THEN [classification |-> "encoder", confidence |-> "high"]
       ELSE ScanArch(Tail(items))

\* mutation: the architectures are looked at before model_type
classifyOkArchFirst(e1) ==
  LET c == IF e1.architectures.isArray THEN ScanArch(e1.architectures.items)
           ELSE [classification |-> "unknown", confidence |-> "low"]
  IN
  IF c.classification # "unknown"
  THEN [e1 EXCEPT !.classification = c.classification, !.confidence = c.confidence]
  ELSE IF e1.model_type # Null /\ e1.model_type \in deny
  THEN [e1 EXCEPT !.classification = "encoder", !.confidence = "high"]
  ELSE IF e1.model_type # Null /\ e1.model_type \in allow
  THEN [e1 EXCEPT !.classification = "gen", !.confidence = "high"]
  ELSE e1

\* list-chat-models.js:378-390 the entry of a config that was retrieved
classifyOk(e1) ==
  IF e1.model_type # Null /\ e1.model_type \in deny
  THEN [e1 EXCEPT !.classification = "encoder", !.confidence = "high"]
  ELSE IF e1.model_type # Null /\ e1.model_type \in allow
  THEN [e1 EXCEPT !.classification = "gen", !.confidence = "high"]
  ELSE IF e1.architectures.isArray
  THEN LET c == ScanArch(e1.architectures.items) IN
       [e1 EXCEPT !.classification = c.classification, !.confidence = c.confidence]
  ELSE e1

\* mutation: fetchStatus keeps the value the entry was created with
CodeStringInitial(code) == "error"

\* list-chat-models.js:371  String(fetchResult.code || 401)
CodeString(code) == IF code = 403 THEN "403" ELSE "401"

\* list-chat-models.js:366-405
classifyModel(rawModel, fetchResult) ==
  LET entry == [id |-> rawModel.modelId, model_type |-> Null, architectures |-> NoArch,
                classification |-> "unknown", confidence |-> "low", fetchStatus |-> "error"]
  IN
  IF fetchResult.status = "auth"
  THEN [entry EXCEPT !.classification = "auth-protected", !.confidence = "high",
                     !.fetchStatus = CodeString(fetchResult.code)]
  ELSE IF fetchResult.status = "ok"
  THEN LET e1 == [entry EXCEPT !.model_type = fetchResult.model_type,
                               !.architectures = fetchResult.architectures,
                               !.fetchStatus = "ok"]
       IN classifyOk(e1)
  ELSE IF fetchResult.status = "no-config"
  THEN \* line 395: the else branch ends at the first statement, confidence = 'low' always runs
       [entry EXCEPT !.classification = IF rawModel.pipeline_tag # "" /\ StartsWithTextGeneration(rawModel.pipeline_tag)
                                        THEN "gen" ELSE "unknown",
                     !.confidence = "low",
                     !.fetchStatus = "404"]
  ELSE entry

\* ------------------------------------------------- adaptive concurrency state
\* list-chat-models.js:253-255
RECURSIVE pruneOld429s(_, _)
pruneOld429s(recent, now) ==
  IF recent # <<>> /\ Head(recent) < now - RATE_WINDOW THEN pruneOld429s(Tail(recent), now)
  ELSE recent

\* mutation: the halved budget is not kept at one or more
halvedConcurrencyUnfloored(eff) == eff \div 2

\* list-chat-models.js:263 Math.max(1, Math.floor(effectiveConcurrency / 2))
halvedConcurrency(eff) == Max(1, eff \div 2)

\* mutation: the threshold is compared with > instead of >=
record429Late(st, now) ==
  LET recent == pruneOld429s(Append(st.recent, now), now) IN
  IF Len(recent) > RATE_THRESHOLD
  THEN LET newEff == halvedConcurrency(st.eff)
           reduction == st.eff - newEff
       IN [eff |-> IF reduction > 0 THEN newEff ELSE st.eff,
           avail |-> IF reduction > 0 THEN Max(0, st.avail - reduction) ELSE st.avail,
           recent |-> recent,
           until |-> now + BACKOFF_WINDOW]
  ELSE [st EXCEPT !.recent = recent]

\* list-chat-models.js:257-272 on the record [eff, avail, recent, until]
record429(st, now) ==
  LET recent == pruneOld429s(Append(st.recent, now), now) IN
  IF Len(recent) >= RATE_THRESHOLD
  THEN LET newEff == halvedConcurrency(st.eff)
           reduction == st.eff - newEff
       IN [eff |-> IF reduction > 0 THEN newEff ELSE st.eff,
           avail |-> IF reduction > 0 THEN Max(0, st.avail - reduction) ELSE st.avail,
           recent |-> recent,
           until |-> now + BACKOFF_WINDOW]
  ELSE [st EXCEPT !.recent = recent]

\* mutation: the backoff period is not consulted
maybeRestoreConcurrencyEarly(st, now, initial) ==
  LET recent == pruneOld429s(st.recent, now) IN
  IF st.eff < initial
  THEN LET eff == Min(initial, st.eff + 1) IN
       [eff |-> eff, avail |-> Min(st.avail + 1, eff), recent |-> recent, until |-> st.until,
        wake |-> TRUE]
  ELSE [st EXCEPT !.recent = recent] @@ [wake |-> FALSE]

\* list-chat-models.js:274-287 ; wake tells whether a waiter is released
maybeRestoreConcurrency(st, now, initial) ==
  LET recent == pruneOld429s(st.recent, now) IN
  IF now < st.until THEN [st EXCEPT !.recent = recent] @@ [wake |-> FALSE]
  ELSE IF recent = <<>> /\ st.eff < initial
  THEN LET eff == Min(initial, st.eff + 1) IN
       [eff |-> eff, avail |-> Min(st.avail + 1, eff), recent |-> recent, until |-> st.until,
        wake |-> TRUE]
  ELSE [st EXCEPT !.recent = recent] @@ [wake |-> FALSE]

RateState == [eff |-> effectiveConcurrency, avail |-> availableTokens,
              recent |-> recent429s, until |-> rateLimitedUntil]

\* ------------------------------------------------------------- the pipeline
Workers == 1..2

\* sentPath counts the requests issued on the current path of the candidate
NoWorker == [pc |-> "none", i |-> 0, url |-> 0, attempt |-> 0, sentPath |-> 0]

Ev(status, modelId, i, data) == [status |-> status, modelId |-> modelId, i |-> i, data |-> data]

\* list-chat-models.js:5-13 and 229-251 the state at the first next()
IterInitWith(choices) ==
  /\ params \in choices
  \* list-chat-models.js:412 the page loop is entered only while listing.length < MAX_TOTAL_TO_FETCH
  /\ gpc = IF 0 < MAX_TOTAL_TO_FETCH THEN "listFetch" ELSE "listingDone"
  /\ lattempt = 0
  /\ listing = <<>>
  /\ survivors = <<>>
  /\ idx = 0
  /\ processed = 0
  /\ events = <<>>
  /\ resolveNext = FALSE
  /\ results = <<>>
  /\ errors = <<>>
  /\ yielded = <<>>
  /\ returnRequested = FALSE
  /\ inFlight = {}
  /\ aborted = {}
  /\ pool = [w \in Workers |-> NoWorker]
  /\ effectiveConcurrency = initialConcurrency
  /\ availableTokens = initialConcurrency
  /\ tokenWaiters = <<>>
  /\ recent429s = <<>>
  /\ rateLimitedUntil = 0
  /\ counters = [configFetch429 |-> 0, configFetch200 |-> 0, configFetchError |-> 0]
  /\ restoreInterval = FALSE
  /\ clock = 0
  /\ faults = 0

IterInit == IterInitWith(ParamChoices)

\* the iterator is never created
IterIdle ==
  /\ params = [maxCandidates |-> 250, concurrency |-> 12, maxListing |-> 5000]
  /\ gpc = "idle"
  /\ lattempt = 0
  /\ listing = <<>>
  /\ survivors = <<>>
  /\ idx = 0
  /\ processed = 0
  /\ events = <<>>
  /\ resolveNext = FALSE
  /\ results = <<>>
  /\ errors = <<>>
  /\ yielded = <<>>
  /\ returnRequested = FALSE
  /\ inFlight = {}
  /\ aborted = {}
  /\ pool = [w \in Workers |-> NoWorker]
  /\ effectiveConcurrency = 12
  /\ availableTokens = 12
  /\ tokenWaiters = <<>>
  /\ recent429s = <<>>
  /\ rateLimitedUntil = 0
  /\ counters = [configFetch429 |-> 0, configFetch200 |-> 0, configFetchError |-> 0]
  /\ restoreInterval = FALSE
  /\ clock = 0
  /\ faults = 0

\* the ModelCache receives no message
CacheIdle ==
  /\ CacheInit
  /\ hasWebLLM = TRUE

Finished_gpc == {"returned", "completed", "threw"}

\* a promise reaction of the generator is ready to run
GenRunnable ==
  \/ gpc \in {"listingDone", "prefilter", "startPool", "consumeCheck", "drain", "final"}
  \/ gpc = "nextEvent" /\ events # <<>>
  \/ gpc = "awaitPool" /\ \A w \in Workers : pool[w].pc \in {"none", "exited"}

\* a promise reaction of worker w is ready to run
WorkerRunnable(w) == pool[w].pc \in {"take", "woken", "emitFetching"}

\* macrotasks (network answers, timers, messages) run when no reaction is pending
MicroPending == GenRunnable \/ \E w \in Workers : WorkerRunnable(w)

\* list-chat-models.js:540-545 the finally block: restoreInterval is block-scoped
\* to the try body, so clearInterval(restoreInterval) throws a ReferenceError
\* that the inner try/catch swallows and the timer stays armed
Finally ==
  /\ aborted' = aborted \cup inFlight
  /\ restoreInterval' = restoreInterval

\* mutation: the ReferenceError of the finally block escapes
FinallyOutcomeUncaught(pc) == "threw"

\* list-chat-models.js:541-544 both statements of the finally block sit in their
\* own try/catch, so the block never changes how the generator ends
FinallyOutcome(pc) == pc

\* `yield v` followed by the consumer's next(), or by a queued return()
Yield(v, nextpc) ==
  /\ yielded' = Append(yielded, v)
  /\ IF returnRequested
     THEN gpc' = FinallyOutcome("returned") /\ Finally
     ELSE gpc' = nextpc /\ UNCHANGED <<aborted, restoreInterval>>

iterRateVars == <<effectiveConcurrency, availableTokens, tokenWaiters, recent429s,
                  rateLimitedUntil, counters>>
iterPoolVars == <<idx, processed, events, resolveNext, results, errors, inFlight, pool>>

\* list-chat-models.js:417-431 the listing fetch settles
ListingResponse ==
  /\ UNCHANGED <<cacheVars, connVars, pureVars>>
  /\ gpc = "listFetch"
  /\ ~MicroPending
  /\ \E resp \in {"page", "429", "fail"}, len \in 1..MaxPage :
       \/ /\ resp = "page"
          /\ LET from == Len(listing) + 1
                 to == Min(Len(listing) + len, Len(Catalog))
                 page == IF from > Len(Catalog) THEN <<>> ELSE SubSeq(Catalog, from, to)
                 newListing == listing \o page
             IN
             /\ listing' = newListing
             /\ lattempt' = 0
             /\ gpc' = IF Len(newListing) < MAX_TOTAL_TO_FETCH THEN "listFetch" ELSE "listingDone"
             /\ UNCHANGED <<aborted, restoreInterval>>
       \/ /\ resp = "429"
          /\ len = 1
          /\ gpc' = "listBackoff"
          /\ UNCHANGED <<listing, lattempt, aborted, restoreInterval>>
       \/ /\ resp = "fail"
          /\ len = 1
          /\ IF lattempt = RETRIES
             THEN gpc' = FinallyOutcome("threw") /\ Finally
             ELSE gpc' = "listBackoff" /\ UNCHANGED <<aborted, restoreInterval>>
          /\ UNCHANGED <<listing, lattempt>>
  /\ UNCHANGED <<params, survivors, yielded, returnRequested, clock, faults>>
  /\ UNCHANGED iterRateVars
  /\ UNCHANGED iterPoolVars

\* mutation: running out of attempts on a rate-limited page is fatal
AfterListingRetriesThrow == "threw"

\* list-chat-models.js:415, 434 the attempt loop ends with ok = false: break out
\* of the page loop and go on to listing_done
AfterListingRetries == "listingDone"

\* list-chat-models.js:420-421, 431 the backoff timer of the listing loop fires
ListingBackoffElapsed ==
  /\ UNCHANGED <<cacheVars, connVars, pureVars>>
  /\ gpc = "listBackoff"
  /\ ~MicroPending
  /\ IF lattempt + 1 <= RETRIES
     THEN lattempt' = lattempt + 1 /\ gpc' = "listFetch"
     ELSE lattempt' = 0 /\ gpc' = AfterListingRetries
  /\ UNCHANGED <<params, listing, survivors, yielded, returnRequested, clock, faults, aborted,
                 restoreInterval>>
  /\ UNCHANGED iterRateVars
  /\ UNCHANGED iterPoolVars

\* list-chat-models.js:438
GenListingDone ==
  /\ UNCHANGED <<cacheVars, connVars, pureVars>>
  /\ gpc = "listingDone"
  /\ Yield(Ev("listing_done", "", 0, Len(listing)), "prefilter")
  /\ UNCHANGED <<params, lattempt, listing, survivors, returnRequested, clock, faults>>
  /\ UNCHANGED iterRateVars
  /\ UNCHANGED iterPoolVars

\* list-chat-models.js:440-469
GenPrefilter ==
  /\ UNCHANGED <<cacheVars, connVars, pureVars>>
  /\ gpc = "prefilter"
  /\ survivors' = Prefilter(listing, <<>>, params.maxCandidates)
  /\ Yield(Ev("prefiltered", "", 0, Len(survivors')), "startPool")
  /\ UNCHANGED <<params, lattempt, listing, returnRequested, clock, faults>>
  /\ UNCHANGED iterRateVars
  /\ UNCHANGED iterPoolVars

\* list-chat-models.js:496  Math.min(initialConcurrency, survivors.length || 1)
workerCount == Min(initialConcurrency, IF Len(survivors) = 0 THEN 1 ELSE Len(survivors))

\* list-chat-models.js:473-497 the timer is armed and the pool is created
GenStartPool ==
  /\ UNCHANGED <<cacheVars, connVars, pureVars>>
  /\ gpc = "startPool"
  /\ restoreInterval' = TRUE
  /\ pool' = [w \in Workers |-> IF w <= workerCount THEN [NoWorker EXCEPT !.pc = "take"] ELSE NoWorker]
  /\ gpc' = "consumeCheck"
  /\ UNCHANGED <<params, lattempt, listing, survivors, yielded, returnRequested, clock, faults,
                 aborted, idx, processed, events, resolveNext, results, errors, inFlight>>
  /\ UNCHANGED iterRateVars

ModelIdOf(w) == survivors[pool[w].i + 1].modelId

\* mutation: the model is read through the shared cursor when the answer arrives
CandidateOfCursor(w) == survivors[Min(idx, Len(survivors))]

\* list-chat-models.js:501  const model = survivors[i]
CandidateOf(w) == survivors[pool[w].i + 1]

\* list-chat-models.js:300-306 releaseToken called by worker w, which then loops
releaseToken(w, avail) ==
  LET newAvail == Min(effectiveConcurrency, avail + 1)
      wake == tokenWaiters # <<>> /\ newAvail > 0
  IN
  /\ availableTokens' = newAvail
  /\ tokenWaiters' = IF wake THEN Tail(tokenWaiters) ELSE tokenWaiters
  /\ pool' = [v \in Workers |->
                IF v = w THEN [NoWorker EXCEPT !.pc = "take"]
                ELSE IF wake /\ v = Head(tokenWaiters) THEN [pool[v] EXCEPT !.pc = "woken"]
                ELSE pool[v]]

\* list-chat-models.js:508-518 fetchConfigForModel returned fetchResult to worker w
FinishCandidate(w, fetchResult) ==
  LET entry == classifyModel(CandidateOf(w), fetchResult) IN
  /\ results' = Append(results, entry)
  /\ events' = Append(events, Ev("classified", ModelIdOf(w), pool[w].i, entry))
  /\ resolveNext' = FALSE
  /\ processed' = processed + 1
  /\ releaseToken(w, availableTokens)
  /\ inFlight' = inFlight \ {w}
  /\ aborted' = aborted \ {w}
  /\ UNCHANGED <<errors, idx, effectiveConcurrency, recent429s, rateLimitedUntil>>

\* list-chat-models.js:328-333 the next request of the retry loops is issued
IssueRequest(w, url, attempt) ==
  /\ pool' = [pool EXCEPT ![w] = [pc |-> "fetching", i |-> pool[w].i, url |-> url, attempt |-> attempt,
                                  sentPath |-> IF url = pool[w].url THEN pool[w].sentPath + 1 ELSE 1]]
  /\ inFlight' = inFlight \cup {w}
  /\ aborted' = aborted \ {w}
  /\ UNCHANGED <<results, events, resolveNext, processed, errors, idx, availableTokens,
                 tokenWaiters, effectiveConcurrency, recent429s, rateLimitedUntil>>

\* mutation: the second path is skipped
NextUrlSkip(w) ==
  IF pool[w].url < 3
  THEN IssueRequest(w, 3, 0)
  ELSE FinishCandidate(w, FetchResult("no-config", 0, Null, NoArch))

\* list-chat-models.js:327, 340, 363 the inner loop is left for the next url
NextUrl(w) ==
  IF pool[w].url < 3
  THEN IssueRequest(w, pool[w].url + 1, 0)
  ELSE FinishCandidate(w, ConfigResult("404", Null))

\* mutation: the cursor is read without being advanced
NextCursorStuck(i) == i

\* list-chat-models.js:499  const i = idx++
NextCursor(i) == i + 1

\* list-chat-models.js:498-505 and 289-298 a worker takes the next index and asks for a token
WTake(w) ==
  /\ UNCHANGED <<cacheVars, connVars, pureVars>>
  /\ pool[w].pc = "take"
  /\ idx' = NextCursor(idx)
  /\ IF idx >= Len(survivors)
     THEN /\ pool' = [pool EXCEPT ![w] = [NoWorker EXCEPT !.pc = "exited"]]
          /\ UNCHANGED <<availableTokens, tokenWaiters>>
     ELSE IF availableTokens > 0
     THEN /\ availableTokens' = availableTokens - 1
          /\ pool' = [pool EXCEPT ![w] = [NoWorker EXCEPT !.pc = "emitFetching", !.i = idx]]
          /\ UNCHANGED tokenWaiters
     ELSE /\ tokenWaiters' = Append(tokenWaiters, w)
          /\ pool' = [pool EXCEPT ![w] = [NoWorker EXCEPT !.pc = "waitToken", !.i = idx]]
          /\ UNCHANGED availableTokens
  /\ UNCHANGED <<params, gpc, lattempt, listing, survivors, processed, events, resolveNext,
                 results, errors, yielded, returnRequested, inFlight, aborted,
                 effectiveConcurrency, recent429s, rateLimitedUntil, counters,
                 restoreInterval, clock, faults>>

\* list-chat-models.js:506-507, 321-333 and 511-518: config_fetching is emitted and
\* fetchConfigForModel is called; encodeURIComponent throws for a malformed id
WStartFetch(w) ==
  /\ UNCHANGED <<cacheVars, connVars, pureVars>>
  /\ pool[w].pc \in {"emitFetching", "woken"}
  /\ LET started == Ev("config_fetching", ModelIdOf(w), pool[w].i, 0)
         \* lines 295-297: a waiter that was resumed consumes its token first
         avail == IF pool[w].pc = "woken" THEN Max(0, availableTokens - 1) ELSE availableTokens
     IN
     IF ModelIdOf(w) \in MalformedIds
     THEN /\ errors' = Append(errors, [modelId |-> ModelIdOf(w), message |-> "URIError"])
          /\ events' = events \o <<started, Ev("error", ModelIdOf(w), pool[w].i, "URIError")>>
          /\ resolveNext' = FALSE
          /\ processed' = processed + 1
          /\ releaseToken(w, avail)
          /\ UNCHANGED <<results, inFlight, aborted>>
     ELSE /\ events' = Append(events, started)
          /\ resolveNext' = FALSE
          /\ pool' = [pool EXCEPT ![w] = [pc |-> "fetching", i |-> pool[w].i, url |-> 1, attempt |-> 0,
                                          sentPath |-> 1]]
          /\ inFlight' = inFlight \cup {w}
          /\ aborted' = aborted \ {w}
          /\ availableTokens' = avail
          /\ UNCHANGED <<results, errors, processed, tokenWaiters>>
  /\ UNCHANGED <<params, gpc, lattempt, listing, survivors, idx, yielded, returnRequested,
                 effectiveConcurrency, recent429s, rateLimitedUntil, counters,
                 restoreInterval, clock, faults>>

\* list-chat-models.js:333-360 the metadata request of worker w settles
\* answers is what the server may answer, bodies the config.json bodies of a 200,
\* cap bounds the faults of a run
WResponseOf(w, answers, bodies, cap) ==
  /\ UNCHANGED <<cacheVars, connVars, pureVars>>
  /\ pool[w].pc = "fetching" \/ (pool[w].pc = "hung" /\ w \in aborted)
  /\ ~MicroPending
  /\ \E resp \in answers \cup {"throws"}, cfg \in bodies :
       /\ resp = "throws" => ("throws" \in answers \/ w \in aborted)
       /\ resp # "200" => cfg = CHOOSE c \in bodies : TRUE
       \* a request whose controller was aborted rejects with an AbortError
       /\ w \in aborted => resp = "throws"
       /\ \/ /\ resp = "200"
             /\ counters' = [counters EXCEPT !.configFetch200 = @ + 1]
             /\ FinishCandidate(w, ConfigResult(resp, cfg))
             /\ faults' = faults
          \/ /\ resp \in {"401", "403"}
             /\ FinishCandidate(w, ConfigResult(resp, cfg))
             /\ UNCHANGED <<counters, faults>>
          \/ /\ resp = "404"
             /\ NextUrl(w)
             /\ UNCHANGED <<counters, faults>>
          \/ /\ resp = "429"
             /\ faults < cap
             /\ faults' = faults + 1
             /\ counters' = [counters EXCEPT !.configFetch429 = @ + 1]
             /\ LET st == record429(RateState, clock) IN
                /\ effectiveConcurrency' = st.eff
                /\ availableTokens' = st.avail
                /\ recent429s' = st.recent
                /\ rateLimitedUntil' = st.until
             /\ pool' = [pool EXCEPT ![w].pc = "backoff"]
             /\ UNCHANGED <<results, events, resolveNext, processed, errors, idx, tokenWaiters,
                            inFlight, aborted>>
          \/ /\ resp = "500"
             /\ counters' = [counters EXCEPT !.configFetchError = @ + 1]
             /\ FinishCandidate(w, ConfigResult(resp, cfg))
             /\ faults' = faults
          \/ /\ resp = "throws"
             /\ faults < cap \/ w \in aborted
             /\ faults' = IF w \in aborted THEN faults ELSE faults + 1
             /\ IF pool[w].attempt = RETRIES
                THEN /\ counters' = [counters EXCEPT !.configFetchError = @ + 1]
                     /\ FinishCandidate(w, ConfigResult(resp, cfg))
                ELSE /\ counters' = counters
                     /\ pool' = [pool EXCEPT ![w].pc = "backoff"]
                     /\ UNCHANGED <<results, events, resolveNext, processed, errors, idx,
                                    tokenWaiters, inFlight, aborted, availableTokens,
                                    effectiveConcurrency, recent429s, rateLimitedUntil>>
  /\ UNCHANGED <<params, gpc, lattempt, listing, survivors, yielded, returnRequested,
                 restoreInterval, clock>>

Answers == {"200", "401", "403", "404", "429", "500", "throws"}

\* list-chat-models.js:333-360 any answer of the metadata endpoint
WResponse(w) ==
  /\ w \in Workers
  /\ WResponseOf(w, Answers, Configs, MaxFaults)

Max429 == 11

\* list-chat-models.js:333-348 a metadata endpoint that only answers 200 or 429
WRateLimited(w) ==
  /\ w \in Workers
  /\ WResponseOf(w, {"200", "429"}, Configs, Max429)

\* list-chat-models.js:329-333 the server never answers the request of worker w:
\* the request has no timer of its own and only an abort of its controller ends it
WHang(w) ==
  /\ UNCHANGED <<cacheVars, connVars, pureVars>>
  /\ pool[w].pc = "fetching"
  /\ w \notin aborted
  /\ ~MicroPending
  /\ faults < MaxFaults
  /\ faults' = faults + 1
  /\ pool' = [pool EXCEPT ![w].pc = "hung"]
  /\ UNCHANGED <<params, gpc, lattempt, listing, survivors, idx, processed, events, resolveNext,
                 results, errors, yielded, returnRequested, inFlight, aborted, counters,
                 restoreInterval, clock>>
  /\ UNCHANGED <<effectiveConcurrency, availableTokens, tokenWaiters, recent429s,
                 rateLimitedUntil>>

\* list-chat-models.js:345-347, 356-360 the backoff timer of worker w fires
WBackoffElapsed(w) ==
  /\ UNCHANGED <<cacheVars, connVars, pureVars>>
  /\ pool[w].pc = "backoff"
  /\ ~MicroPending
  /\ IF pool[w].attempt + 1 <= RETRIES
     THEN IssueRequest(w, pool[w].url, pool[w].attempt + 1)
     ELSE NextUrl(w)
  /\ UNCHANGED <<params, gpc, lattempt, listing, survivors, yielded, returnRequested,
                 counters, restoreInterval, clock, faults>>

\* list-chat-models.js:523-526 and 486-491 the consume loop
GenConsume ==
  /\ UNCHANGED <<cacheVars, connVars, pureVars>>
  /\ gpc \in {"consumeCheck", "nextEvent"}
  /\ IF gpc = "consumeCheck" /\ processed >= Len(survivors)
     THEN /\ gpc' = "drain"
          /\ UNCHANGED <<events, resolveNext, yielded, aborted, restoreInterval>>
     ELSE IF events = <<>>
     THEN /\ gpc = "consumeCheck"
          /\ gpc' = "nextEvent"
          /\ resolveNext' = TRUE
          /\ UNCHANGED <<events, yielded, aborted, restoreInterval>>
     ELSE /\ events' = Tail(events)
          /\ Yield(Head(events), "consumeCheck")
          /\ UNCHANGED resolveNext
  /\ UNCHANGED <<params, lattempt, listing, survivors, idx, processed, results, errors,
                 returnRequested, inFlight, pool, clock, faults>>
  /\ UNCHANGED iterRateVars

\* list-chat-models.js:528-531
GenDrain ==
  /\ UNCHANGED <<cacheVars, connVars, pureVars>>
  /\ gpc = "drain"
  /\ IF events # <<>>
     THEN /\ events' = Tail(events)
          /\ Yield(Head(events), "drain")
     ELSE /\ gpc' = "awaitPool"
          /\ UNCHANGED <<events, yielded, aborted, restoreInterval>>
  /\ UNCHANGED <<params, lattempt, listing, survivors, idx, processed, resolveNext, results,
                 errors, returnRequested, inFlight, pool, clock, faults>>
  /\ UNCHANGED iterRateVars

\* mutation: filtered reports the size of the listing
DonePayloadListing ==
  [models |-> results,
   meta |-> [fetched |-> Len(listing), filtered |-> Len(listing), errors |-> errors]]

\* list-chat-models.js:536-539 the payload of done
DonePayload ==
  [models |-> results,
   meta |-> [fetched |-> Len(listing), filtered |-> Len(survivors), errors |-> errors]]

\* list-chat-models.js:533-545 Promise.all(pool) resolved: done is yielded and the body ends
GenDone ==
  /\ UNCHANGED <<cacheVars, connVars, pureVars>>
  /\ gpc = "awaitPool"
  /\ \A w \in Workers : pool[w].pc \in {"none", "exited"}
  /\ yielded' = Append(yielded, Ev("done", "", 0, DonePayload))
  /\ gpc' = FinallyOutcome(IF returnRequested THEN "returned" ELSE "completed")
  /\ Finally
  /\ UNCHANGED <<params, lattempt, listing, survivors, returnRequested, clock, faults>>
  /\ UNCHANGED iterRateVars
  /\ UNCHANGED iterPoolVars

\* boot-worker.js:113 activeTasks abort: iterator.return() is queued behind the running next()
Cancel ==
  /\ UNCHANGED <<cacheVars, connVars, pureVars>>
  /\ gpc \notin Finished_gpc
  /\ ~returnRequested
  /\ ~MicroPending
  /\ returnRequested' = TRUE
  /\ UNCHANGED <<params, gpc, lattempt, listing, survivors, yielded, clock, faults, aborted,
                 restoreInterval>>
  /\ UNCHANGED iterRateVars
  /\ UNCHANGED iterPoolVars

\* a metadata request or a backoff timer of the pool is outstanding
NetworkBusy == \E w \in Workers : pool[w].pc \in {"fetching", "backoff", "hung"}

\* list-chat-models.js:494 and 274-287 the interval callback fires, five seconds
\* after the timer was armed or after its previous firing; the clock counts the
\* firings. The requests of a run are outstanding during the first MaxBusyClock
\* intervals at most; the timer itself is never cleared (see Finally) and goes
\* on firing after the run.
Tick ==
  /\ UNCHANGED <<cacheVars, connVars, pureVars>>
  /\ restoreInterval
  /\ clock < MaxClock
  /\ NetworkBusy => clock < MaxBusyClock
  /\ ~MicroPending
  /\ clock' = clock + 1
  /\ LET st == maybeRestoreConcurrency(RateState, clock', initialConcurrency)
         wake == st.wake /\ tokenWaiters # <<>>
     IN
     /\ effectiveConcurrency' = st.eff
     /\ availableTokens' = st.avail
     /\ recent429s' = st.recent
     /\ rateLimitedUntil' = st.until
     /\ tokenWaiters' = IF wake THEN Tail(tokenWaiters) ELSE tokenWaiters
     /\ pool' = IF wake THEN [pool EXCEPT ![Head(tokenWaiters)].pc = "woken"] ELSE pool
  /\ UNCHANGED <<params, gpc, lattempt, listing, survivors, idx, processed, events, resolveNext,
                 results, errors, yielded, returnRequested, inFlight, aborted, counters,
                 restoreInterval, faults>>

\* ------------------------------------------- worker connection (main thread)
MaxCalls == 2
CallIds == 1..MaxCalls

NoCall == [api |-> "none", promise |-> "none", entry |-> FALSE, resolved |-> FALSE,
           cancelCalled |-> FALSE, progress |-> 0]
NoTask == [pc |-> "none", cancelled |-> FALSE, active |-> FALSE, progress |-> 0]

Msg(type, id, result) == [type |-> type, id |-> id, result |-> result]

\* no listChatModels call has been made
ConnIdle ==
  /\ calls = [id \in CallIds |-> NoCall]
  /\ tasks = [id \in CallIds |-> NoTask]
  /\ toWorker = <<>>
  /\ toMain = <<>>

\* worker-connection.js:82-95 listChatModels(params, onProgress); postMessage may throw
CallListChatModels(id) ==
  /\ calls[id].promise = "none"
  /\ \A j \in CallIds : j < id => calls[j].promise # "none"
  /\ \E posted \in BOOLEAN :
       IF posted
       THEN /\ calls' = [calls EXCEPT ![id].api = "listChatModels", ![id].promise = "pending",
                                        ![id].entry = TRUE]
            /\ toWorker' = Append(toWorker, Msg("listChatModels", id, ""))
       ELSE /\ calls' = [calls EXCEPT ![id].api = "listChatModels", ![id].promise = "rejected"]
            /\ toWorker' = toWorker
  /\ UNCHANGED <<tasks, toMain, cacheVars, iterVars, pureVars>>

\* worker-connection.js:64-70, 118-122 runPrompt through send(message); when
\* postMessage throws the executor rejects the promise and the entry stays
CallSend(id) ==
  /\ calls[id].promise = "none"
  /\ \A j \in CallIds : j < id => calls[j].promise # "none"
  /\ \E posted \in BOOLEAN :
       IF posted
       THEN /\ calls' = [calls EXCEPT ![id].api = "send", ![id].promise = "pending",
                                        ![id].entry = TRUE]
            /\ toWorker' = Append(toWorker, Msg("runPrompt", id, ""))
       ELSE /\ calls' = [calls EXCEPT ![id].api = "send", ![id].promise = "rejected",
                                        ![id].entry = TRUE]
            /\ toWorker' = toWorker
  /\ UNCHANGED <<tasks, toMain, cacheVars, iterVars, pureVars>>

\* worker-connection.js:97-102 the cancel function handed to the caller
CallCancel(id) ==
  /\ calls[id].api = "listChatModels"
  /\ ~calls[id].cancelCalled
  /\ toWorker' = IF ~calls[id].resolved
                 THEN Append(toWorker, Msg("cancelListChatModels", id, ""))
                 ELSE toWorker
  /\ calls' = [calls EXCEPT ![id].entry = FALSE, ![id].cancelCalled = TRUE]
  /\ UNCHANGED <<tasks, toMain, cacheVars, iterVars, pureVars>>

\* boot-worker.js:26-39, 49-50, 75-85 handleMessage for listChatModels,
\* cancelListChatModels and runPrompt
WorkerReceive ==
  /\ toWorker # <<>>
  /\ LET msg == Head(toWorker) IN
     /\ toWorker' = Tail(toWorker)
     /\ IF msg.type = "listChatModels"
        THEN /\ tasks' = [tasks EXCEPT ![msg.id] = [NoTask EXCEPT !.pc = "running", !.active = TRUE]]
             /\ toMain' = toMain
        ELSE IF msg.type = "runPrompt"
        THEN /\ tasks' = [tasks EXCEPT ![msg.id] = [NoTask EXCEPT !.pc = "getModel"]]
             /\ toMain' = toMain
        ELSE /\ tasks' = IF tasks[msg.id].active
                         THEN [tasks EXCEPT ![msg.id].cancelled = TRUE]
                         ELSE tasks
             /\ toMain' = Append(toMain, Msg("response", msg.id, "cancelled"))
  /\ UNCHANGED <<calls, cacheVars, iterVars, pureVars>>

MaxProgress == 1

\* boot-worker.js:120, 142 a progress message of a running task
TaskProgress(id) ==
  /\ tasks[id].pc = "running"
  /\ tasks[id].progress < MaxProgress
  /\ tasks' = [tasks EXCEPT ![id].progress = @ + 1]
  /\ toMain' = Append(toMain, Msg("progress", id, ""))
  /\ UNCHANGED <<calls, toWorker, cacheVars, iterVars, pureVars>>

\* boot-worker.js:122-125, 168-181 handleListChatModels ends: the cancelled
\* response, the final response, or the error of the catch block
TaskFinish(id) ==
  /\ tasks[id].pc = "running"
  /\ \E outcome \in {"done", "threw"} :
       /\ toMain' = Append(toMain,
              IF outcome = "threw" THEN Msg("error", id, "Error")
              ELSE IF tasks[id].cancelled THEN Msg("response", id, "cancelled")
              ELSE Msg("response", id, "models"))
       /\ tasks' = [tasks EXCEPT ![id].pc = "finished", ![id].active = FALSE]
  /\ UNCHANGED <<calls, toWorker, cacheVars, iterVars, pureVars>>

\* boot-worker.js:59-64, 69-70 handleRunPrompt: getModel settles, then the
\* inference-start status or the error of the catch block
PromptStart(id) ==
  /\ tasks[id].pc = "getModel"
  /\ \E outcome \in {"pipe", "threw"} :
       IF outcome = "threw"
       THEN /\ toMain' = Append(toMain, Msg("error", id, "Error"))
            /\ tasks' = [tasks EXCEPT ![id].pc = "finished"]
       ELSE /\ toMain' = Append(toMain, Msg("status", id, "inference-start"))
            /\ tasks' = [tasks EXCEPT ![id].pc = "inference"]
  /\ UNCHANGED <<calls, toWorker, cacheVars, iterVars, pureVars>>

\* boot-worker.js:65-70 handleRunPrompt: the inference settles, then the
\* inference-done status and the response, or the error of the catch block
PromptEnd(id) ==
  /\ tasks[id].pc = "inference"
  /\ \E outcome \in {"text", "threw"} :
       toMain' = IF outcome = "threw" THEN Append(toMain, Msg("error", id, "Error"))
                 ELSE toMain \o <<Msg("status", id, "inference-done"), Msg("response", id, "text")>>
  /\ tasks' = [tasks EXCEPT ![id].pc = "finished"]
  /\ UNCHANGED <<calls, toWorker, cacheVars, iterVars, pureVars>>

\* mutation: every message that is not a progress message settles the request
OnMessageAnySettles(c, msg) ==
  IF ~c[msg.id].entry THEN c
  ELSE IF msg.type = "error"
  THEN [c EXCEPT ![msg.id].entry = FALSE, ![msg.id].promise = "rejected"]
  ELSE IF msg.type = "progress"
  THEN [c EXCEPT ![msg.id].progress = @ + 1]
  ELSE [c EXCEPT ![msg.id].entry = FALSE, ![msg.id].resolved = TRUE,
                 ![msg.id].promise = "resolved"]

\* worker-connection.js:39-57 what a message with an id does to the pending map
\* and to the promises
OnMessage(c, msg) ==
  IF ~c[msg.id].entry THEN c
  ELSE IF msg.type = "response"
  THEN [c EXCEPT ![msg.id].entry = FALSE, ![msg.id].resolved = TRUE,
                 ![msg.id].promise = "resolved"]
  ELSE IF msg.type = "error"
  THEN [c EXCEPT ![msg.id].entry = FALSE, ![msg.id].promise = "rejected"]
  ELSE IF msg.type = "progress"
  THEN [c EXCEPT ![msg.id].progress = @ + 1]
  ELSE c

\* worker-connection.js:32-58 the message listener of the main thread
MainReceive ==
  /\ toMain # <<>>
  /\ toMain' = Tail(toMain)
  /\ calls' = OnMessage(calls, Head(toMain))
  /\ UNCHANGED <<tasks, toWorker, cacheVars, iterVars, pureVars>>

NextConn ==
  \/ \E id \in CallIds : CallListChatModels(id)
  \/ \E id \in CallIds : CallSend(id)
  \/ \E id \in CallIds : PromptStart(id)
  \/ \E id \in CallIds : PromptEnd(id)
  \/ \E id \in CallIds : CallCancel(id)
  \/ WorkerReceive
  \/ \E id \in CallIds : TaskProgress(id)
  \/ \E id \in CallIds : TaskFinish(id)
  \/ MainReceive

\* ------------------------------------------- single calls of pure functions
MaxArch == 2
MaxListingLen == 3

SeqsUpTo(S, n) == UNION {[1..k -> S] : k \in 0..n}

NoModel == [modelId |-> "", pipeline_tag |-> "", siblings |-> <<>>]
NoConfig == [model_type |-> Null, architectures |-> NoArch]
NoEntry == [id |-> "", model_type |-> Null, architectures |-> NoArch,
            classification |-> "none", confidence |-> "none", fetchStatus |-> "none"]

\* the names an architectures array of a config.json is filled with
ArchNames == {"BERT", "Llama", "LlamaForCausalLM"}

\* list-chat-models.js:335-337 the config.json bodies a 200 answer may carry:
\* model_type absent or a string, architectures absent or an array
ConfigBodies ==
  [model_type : {Null, "bert", "llama", "custom"},
   architectures : {NoArch} \cup {[isArray |-> TRUE, items |-> a] : a \in SeqsUpTo(ArchNames, MaxArch)}]

\* list-chat-models.js:334-363 the answers that end the probe of one model
ProbeOutcomes ==
  {[resp |-> "200", cfg |-> c] : c \in ConfigBodies}
    \cup {[resp |-> r, cfg |-> NoConfig] : r \in {"401", "403", "404", "500", "throws"}}

\* list-chat-models.js:466, 508 classifyModel is called on prefilter survivors only
RawModels ==
  {m \in [modelId : {"org/gen", "meta/llama"},
          pipeline_tag : {"", "text-generation", "Text-Generation", "text2text-generation"},
          siblings : {<<>>, <<"tokenizer.json">>}] : PrefilterKeeps(m)}

\* the entries a page of the listing endpoint may carry
ListingEntries ==
  [modelId : {"org/gen", "org/sentence-transformers-mini"},
   pipeline_tag : {"", "text-generation", "Text-Generation", "feature-extraction"},
   siblings : {<<"README.md">>, <<"README.md", "vocab.txt">>}]

\* no pure function is called
PureIdle ==
  /\ argRawModel = NoModel
  /\ argOutcome = [resp |-> "none", cfg |-> NoConfig]
  /\ retEntry = [returned |-> FALSE, value |-> NoEntry]
  /\ argListing = <<>>
  /\ argMaxCandidates = 0
  /\ retSurvivors = [returned |-> FALSE, value |-> <<>>]

\* list-chat-models.js:508-509 a probe that ended with argOutcome, before classifyModel runs
InitClassify ==
  /\ argRawModel \in RawModels
  /\ argOutcome \in ProbeOutcomes
  /\ retEntry = [returned |-> FALSE, value |-> NoEntry]
  /\ argListing = <<>>
  /\ argMaxCandidates = 0
  /\ retSurvivors = [returned |-> FALSE, value |-> <<>>]
  /\ CacheIdle /\ IterIdle /\ ConnIdle

\* list-chat-models.js:509  const entry = classifyModel(model, fetchResult)
CallClassifyModel ==
  /\ argOutcome.resp # "none"
  /\ ~retEntry.returned
  /\ retEntry' = [returned |-> TRUE,
                  value |-> classifyModel(argRawModel, ConfigResult(argOutcome.resp, argOutcome.cfg))]
  /\ UNCHANGED <<argRawModel, argOutcome, argListing, argMaxCandidates, retSurvivors>>
  /\ UNCHANGED <<cacheVars, iterVars, connVars>>

SpecClassify == InitClassify /\ [][CallClassifyModel]_vars

\* list-chat-models.js:438-442 a listing that was accumulated, before the prefilter runs
InitPrefilter ==
  /\ argRawModel = NoModel
  /\ argOutcome = [resp |-> "none", cfg |-> NoConfig]
  /\ retEntry = [returned |-> FALSE, value |-> NoEntry]
  /\ argListing \in SeqsUpTo(ListingEntries, MaxListingLen)
  /\ argMaxCandidates \in {1, 2}
  /\ retSurvivors = [returned |-> FALSE, value |-> <<>>]
  /\ CacheIdle /\ IterIdle /\ ConnIdle

\* list-chat-models.js:442-467 the prefilter loop runs over the listing
CallPrefilter ==
  /\ argMaxCandidates > 0
  /\ ~retSurvivors.returned
  /\ retSurvivors' = [returned |-> TRUE, value |-> Prefilter(argListing, <<>>, argMaxCandidates)]
  /\ UNCHANGED <<argRawModel, argOutcome, retEntry, argListing, argMaxCandidates>>
  /\ UNCHANGED <<cacheVars, iterVars, connVars>>

SpecPrefilter == InitPrefilter /\ [][CallPrefilter]_vars

\* ------------------------------------------ runs against a fixed endpoint
\* a metadata endpoint whose answer is determined by the requested url
\* (list-chat-models.js:322-326: the url is made of the model id and the path)
MockStatus(modelId, url) ==
  CASE modelId = "org/gen" -> "200"
    [] modelId = "org/extra" /\ url = 2 -> "403"
    [] OTHER -> "404"

MockBody(modelId, url) ==
  [model_type |-> Null,
   architectures |-> [isArray |-> TRUE, items |-> <<"LlamaForCausalLM", "BERT">>]]

\* list-chat-models.js:333-340 the request of worker w is answered by the fixed endpoint
WMocked(w) ==
  /\ w \in Workers
  /\ WResponseOf(w, {MockStatus(ModelIdOf(w), pool[w].url)},
                 {MockBody(ModelIdOf(w), pool[w].url)}, 0)

MockParamChoices ==
  [maxCandidates : {3, 4}, concurrency : {1, 2}, maxListing : {5}]

InitMock == IterInitWith(MockParamChoices) /\ CacheIdle /\ ConnIdle /\ PureIdle

NextMock ==
  \/ ListingResponse
  \/ ListingBackoffElapsed
  \/ GenListingDone
  \/ GenPrefilter
  \/ GenStartPool
  \/ \E w \in Workers : WTake(w)
  \/ \E w \in Workers : WStartFetch(w)
  \/ \E w \in Workers : WMocked(w)
  \/ GenConsume
  \/ GenDrain
  \/ GenDone

\* the uncancelled runs of the iterator against the fixed endpoint, with every
\* pagination of the listing and every interleaving of the pool workers
SpecMock == InitMock /\ [][NextMock]_vars

\* ------------------------------------------- runs of one worker with retries
MaxRetryFaults == 12

InitRetry ==
  /\ IterInitWith([maxCandidates : {1, 3}, concurrency : {1}, maxListing : {5}])
  /\ CacheIdle /\ ConnIdle /\ PureIdle

\* list-chat-models.js:333-360 any answer, with enough faults to use up every
\* attempt of every path of one candidate
WFaulty(w) ==
  /\ w \in Workers
  /\ WResponseOf(w, Answers, Configs, MaxRetryFaults)

NextRetry ==
  \/ ListingResponse
  \/ ListingBackoffElapsed
  \/ GenListingDone
  \/ GenPrefilter
  \/ GenStartPool
  \/ \E w \in Workers : WTake(w)
  \/ \E w \in Workers : WStartFetch(w)
  \/ \E w \in Workers : WFaulty(w)
  \/ \E w \in Workers : WBackoffElapsed(w)
  \/ GenConsume
  \/ GenDrain
  \/ GenDone

\* the uncancelled runs of a pool of one worker in which every request is answered
SpecRetry == InitRetry /\ [][NextRetry]_vars

\* ------------------------------------------------- runs with invalid options
\* list-chat-models.js:230 the defaults of the options
DEFAULT_MAX_CANDIDATES == 250
DEFAULT_CONCURRENCY == 12

\* option objects with values that are not positive numbers
OptionChoices ==
  [maxCandidates : {0, 2}, concurrency : {0, 2}, maxListing : {0, 3}]

InitOptions == IterInitWith(OptionChoices) /\ CacheIdle /\ ConnIdle /\ PureIdle

\* list-chat-models.js:333-340 a metadata endpoint that answers 200 or 404
WAnswered(w) ==
  /\ w \in Workers
  /\ WResponseOf(w, {"200", "404"}, Configs, 0)

NextOptions ==
  \/ ListingResponse
  \/ ListingBackoffElapsed
  \/ GenListingDone
  \/ GenPrefilter
  \/ GenStartPool
  \/ \E w \in Workers : WTake(w)
  \/ \E w \in Workers : WStartFetch(w)
  \/ \E w \in Workers : WAnswered(w)
  \/ GenConsume
  \/ GenDrain
  \/ GenDone

\* one uncancelled run of the iterator for each option object, against a
\* metadata endpoint without faults
SpecOptions == InitOptions /\ [][NextOptions]_vars

Init == CacheInit /\ IterIdle /\ ConnIdle /\ PureIdle

Next ==
  \/ ReceiveLoadModel
  \/ ReceiveRunPrompt
  \/ CreateMLCEngineDone
  \/ SmokeTestDone
  \/ LoadModelCoreDone
  \/ RunMicrotask
  \/ InferenceDone

Spec == Init /\ [][Next]_vars

NextIter ==
  \/ ListingResponse
  \/ ListingBackoffElapsed
  \/ GenListingDone
  \/ GenPrefilter
  \/ GenStartPool
  \/ \E w \in Workers : WTake(w)
  \/ \E w \in Workers : WStartFetch(w)
  \/ \E w \in Workers : WResponse(w)
  \/ \E w \in Workers : WBackoffElapsed(w)
  \/ \E w \in Workers : WHang(w)
  \/ GenConsume
  \/ GenDrain
  \/ GenDone
  \/ Cancel

\* the iterator has been called and the ModelCache is left alone
InitIter == IterInit /\ CacheIdle /\ ConnIdle /\ PureIdle

\* one run of the iterator that ends before the first restore interval elapses
SpecIter == InitIter /\ [][NextIter]_vars

\* every step of the program and every answer of the network eventually happens;
\* whether the caller cancels and whether a request hangs is left open
SpecIterFair ==
  /\ SpecIter
  /\ WF_vars(ListingResponse)
  /\ WF_vars(ListingBackoffElapsed)
  /\ WF_vars(GenListingDone)
  /\ WF_vars(GenPrefilter)
  /\ WF_vars(GenStartPool)
  /\ \A w \in Workers : WF_vars(WTake(w))
  /\ \A w \in Workers : WF_vars(WStartFetch(w))
  /\ \A w \in Workers : WF_vars(WResponse(w))
  /\ \A w \in Workers : WF_vars(WBackoffElapsed(w))
  /\ WF_vars(GenConsume)
  /\ WF_vars(GenDrain)
  /\ WF_vars(GenDone)

\* the options of the runs that saturate the pool
BurstParamChoices ==
  [maxCandidates : {4}, concurrency : {2}, maxListing : {5}]

InitBurst == IterInitWith(BurstParamChoices) /\ CacheIdle /\ ConnIdle /\ PureIdle

NextBurst ==
  \/ ListingResponse
  \/ ListingBackoffElapsed
  \/ GenListingDone
  \/ GenPrefilter
  \/ GenStartPool
  \/ \E w \in Workers : WTake(w)
  \/ \E w \in Workers : WStartFetch(w)
  \/ \E w \in Workers : WRateLimited(w)
  \/ \E w \in Workers : WBackoffElapsed(w)
  \/ GenConsume
  \/ GenDrain
  \/ GenDone

\* one uncancelled run of the iterator against a rate-limiting endpoint that
\* ends before the first restore interval elapses
SpecBurst == InitBurst /\ [][NextBurst]_vars

\* the options of the runs under rate limiting
RateParamChoices ==
  [maxCandidates : {1}, concurrency : {2, 4}, maxListing : {3}]

InitTimed == IterInitWith(RateParamChoices) /\ CacheIdle /\ ConnIdle /\ PureIdle

NextTimed ==
  \/ ListingResponse
  \/ ListingBackoffElapsed
  \/ GenListingDone
  \/ GenPrefilter
  \/ GenStartPool
  \/ \E w \in Workers : WTake(w)
  \/ \E w \in Workers : WStartFetch(w)
  \/ \E w \in Workers : WRateLimited(w)
  \/ \E w \in Workers : WBackoffElapsed(w)
  \/ GenConsume
  \/ GenDrain
  \/ GenDone
  \/ Tick

\* one uncancelled run of the iterator against a rate-limiting endpoint, with
\* the passage of time
SpecTimed == InitTimed /\ [][NextTimed]_vars

\* the worker connection alone: no model is loaded and no iterator is created
InitConn == ConnIdle /\ CacheIdle /\ IterIdle /\ PureIdle

SpecConn == InitConn /\ [][NextConn]_vars

\* messages posted are eventually handled and a running task eventually ends
SpecConnFair ==
  /\ SpecConn
  /\ WF_vars(WorkerReceive)
  /\ WF_vars(MainReceive)
  /\ \A id \in CallIds : WF_vars(TaskFinish(id))
  /\ \A id \in CallIds : WF_vars(PromptStart(id))
  /\ \A id \in CallIds : WF_vars(PromptEnd(id))

\* boot-worker.js:36-39, 59-72, 120-181 the worker posts a message about a
\* request that reached it; the worker is left open: any of its message types,
\* any number of times, for any request that was posted to it
WorkerPosts(id) ==
  /\ toMain = <<>>
  /\ \E j \in 1..Len(toWorker) :
       toWorker[j].id = id /\ toWorker[j].type \in {"listChatModels", "runPrompt"}
  /\ \E type \in {"status", "progress", "response", "error"} :
       \* status comes from handleRunPrompt, progress from handleListChatModels
       /\ type = "status" => calls[id].api = "send"
       /\ type = "progress" => calls[id].api = "listChatModels"
       /\ type = "progress" => calls[id].progress < MaxProgress
       /\ toMain' = <<Msg(type, id, "")>>
  /\ UNCHANGED <<calls, tasks, toWorker, cacheVars, iterVars, pureVars>>

\* the listener of the connection against a worker that posts anything
NextListener ==
  \/ \E id \in CallIds : CallListChatModels(id)
  \/ \E id \in CallIds : CallSend(id)
  \/ \E id \in CallIds : CallCancel(id)
  \/ \E id \in CallIds : WorkerPosts(id)
  \/ MainReceive

SpecListener == InitConn /\ [][NextListener]_vars

\* ------------------------------------------------------- ModelCache claims
LoadsOf(m) == {k \in 1..Len(loads) : loads[k].modelName = m}
Succeeded(m) == \E k \in LoadsOf(m) : loads[k].state = "resolved"
Finished(r) == requests[r].pc # "awaitGetModel"
NonBlank(text) == \E i \in 1..Len(text) : text[i] # Space

\* C1: concurrent getModel calls for one identifier share one load sequence:
\* at most one loader is pending per identifier, a new loader (with its one
\* Tier-1 attempt and at most one Tier-2 sequence) is started only after every
\* earlier one was rejected, and callers issued between the same two failures
\* all receive the same handle or the same error.
C1_SingleFlight ==
  /\ \A m \in Models :
        /\ Cardinality({k \in LoadsOf(m) : loads[k].state = "pending"}) <= 1
        /\ Cardinality(LoadsOf(m)) <= epoch[m] + 1
        /\ tier1Attempts[m] <= epoch[m] + 1
        /\ tier2Seqs[m] <= epoch[m] + 1
  /\ \A r1, r2 \in 1..Len(requests) :
        (requests[r1].modelName = requests[r2].modelName /\ requests[r1].epochAt = requests[r2].epochAt)
          => /\ requests[r1].awaited = requests[r2].awaited
             /\ (Finished(r1) /\ Finished(r2))
                  => /\ requests[r1].pipe = requests[r2].pipe
                     /\ requests[r1].err = requests[r2].err

\* C1 witness: three callers shared one loader and all got its handle
C1_Witness ==
  \E k \in 1..Len(loads) :
    /\ Len(loads[k].waiters) >= 3
    /\ loads[k].state = "resolved"
    /\ \A i \in 1..Len(loads[k].waiters) :
         Finished(loads[k].waiters[i]) /\ requests[loads[k].waiters[i]].pipe = loads[k].result

\* C2: a Tier-1 failure (engine creation throws, smoke test throws or answers
\* an empty or blank text) never settles the loader: the engine is neither
\* returned nor cached, the load continues in Tier 2 and only Tier 2 decides.
C2_Tier1FailureFallsThrough ==
  \A k \in 1..Len(loads) :
    LET l == loads[k] IN
    /\ l.t1failed =>
         /\ l.result.tier # "webllm"
         /\ cache[l.modelName].handle.tier = "webllm" => cache[l.modelName].handle.load # k
         /\ l.state = "pending" => l.pc = "loadModelCore"
         /\ l.state = "rejected" => l.tried # <<>>
         /\ l.state = "resolved" => l.result.tier = "transformers"
    /\ l.result.tier = "webllm" => NonBlank(l.smoke)

\* C2 witness: a load whose Tier 1 failed was completed by Tier 2, and another failed in Tier 2
C2_Witness ==
  /\ \E k \in 1..Len(loads) : loads[k].t1failed /\ loads[k].state = "resolved"
  /\ \E k \in 1..Len(loads) : loads[k].t1failed /\ loads[k].state = "rejected"

\* C3: when every Tier-2 device failed for X the entry of X is removed before
\* any caller observes the failure, and a getModel(X) issued after e failures
\* awaits the (e+1)-th loader of X, a new load sequence that starts again at
\* Tier 1 (when the probe allows Tier 1).
C3_RetryFromScratch ==
  \A r \in 1..Len(requests) :
    LET q == requests[r]
        m == q.modelName
    IN
    /\ q.outcome = "error_load" => cache[m].load # q.err
    /\ Cardinality({j \in LoadsOf(m) : j <= q.awaited}) = q.epochAt + 1
    /\ webllmProbe.possible => tier1Attempts[m] >= q.epochAt + 1
    /\ (microtasks = <<>> /\ cache[m].kind = "promise") => loads[cache[m].load].state = "pending"

\* C3 witness: a caller saw the failure of X and a later caller got a second loader and a second Tier-1 attempt
C3_Witness ==
  \E r1, r2 \in 1..Len(requests) :
    /\ requests[r1].modelName = requests[r2].modelName
    /\ requests[r1].outcome = "error_load"
    /\ requests[r2].epochAt = 1
    /\ requests[r2].awaited > requests[r1].err
    /\ tier1Attempts[requests[r1].modelName] = 2

\* C4: once a load of X has succeeded the entry of X stays: it is never
\* removed, it keeps designating the handle of that load, no further Tier-1
\* or Tier-2 attempt starts for X and every caller is given that handle.
C4_ReadyForever ==
  [][\A m \in Models :
       Succeeded(m) =>
         LET k == CHOOSE j \in LoadsOf(m) : loads[j].state = "resolved" IN
         /\ cache[m].load = k
         /\ cache'[m].load = k
         /\ cache'[m].kind # "absent"
         /\ cache[m].kind = "model" => cache'[m] = ModelEntry(loads[k].result)
         /\ tier1Attempts'[m] = tier1Attempts[m]
         /\ tier2Seqs'[m] = tier2Seqs[m]
         /\ LoadsOf(m)' = LoadsOf(m)
         /\ \A r \in 1..Len(requests') :
              (requests'[r].modelName = m /\ requests'[r].awaited = k /\ requests'[r].pc # "awaitGetModel")
                => requests'[r].pipe = loads[k].result
  ]_vars

\* C4 witness: a caller that arrived after the success was served the stored handle
C4_Witness ==
  \E r \in 1..Len(requests) :
    LET q == requests[r] IN
    /\ q.awaited \in 1..Len(loads)
    /\ loads[q.awaited].state = "resolved"
    /\ r \notin Range(loads[q.awaited].waiters)
    /\ cache[q.modelName] = ModelEntry(loads[q.awaited].result)
    /\ q.pc = "done"
    /\ q.pipe = loads[q.awaited].result

\* C5: a runPrompt on a loaded model uses the call convention of the tier that
\* produced the handle, so it never ends in a dispatch error.
C5_DispatchByShape ==
  \A r \in 1..Len(requests) :
    (requests[r].type = "runPrompt" /\ requests[r].pipe # NoHandle)
      => requests[r].outcome # "error_dispatch"

\* C6: getModel fails only after every device of the ordered list, down to
\* the universal one, has been tried.
C6_AllDevicesTried ==
  \A k \in 1..Len(loads) :
    loads[k].state = "rejected"
      => \A d \in Range(DocumentedCandidates(backend)) : d \in Range(loads[k].tried)

\* C7: the capability probe is evaluated at most once and its result is
\* reused by every load; when it says "not possible" no engine creation is
\* ever attempted.
C7_ProbeOnce ==
  /\ probeEvals <= 1
  /\ (Len(loads) > 0) => (probeEvals = 1 /\ webllmProbe.evaluated)
  /\ (webllmProbe.evaluated /\ ~webllmProbe.possible)
       => /\ \A m \in Models : tier1Attempts[m] = 0
          /\ \A k \in 1..Len(loads) : ~loads[k].t1failed /\ loads[k].result.tier # "webllm"

\* C7 witness: several loads ran on one probe evaluation that said "not possible"
C7_Witness ==
  /\ probeEvals = 1
  /\ ~webllmProbe.possible
  /\ Len(loads) >= 2
  /\ \A k \in 1..Len(loads) : loads[k].state # "pending"

\* ------------------------------------------- listChatModelsIterator claims
CandidateStatuses == {"config_fetching", "classified", "error"}
IsCandidateEvent(e) == e.status \in CandidateStatuses
\* every event the workers have emitted so far, in emission order
Emitted == SelectSeq(yielded, IsCandidateEvent) \o events
Positions(seq, status, i) == {j \in 1..Len(seq) : seq[j].status = status /\ seq[j].i = i}
TerminalPositions(seq, i) == Positions(seq, "classified", i) \cup Positions(seq, "error", i)
DoneYielded == \E j \in 1..Len(yielded) : yielded[j].status = "done"

\* C8: the yielded events are ordered: listing_done is the first and only the
\* first, prefiltered the second and only the second, then only per-candidate
\* events, and done, when yielded, is the last event; a run that is neither
\* cancelled nor hit by a fatal error ends with done, and a run that threw
\* has not yielded done.
C8_EventOrder ==
  /\ \A j \in 1..Len(yielded) :
        /\ (j = 1) <=> (yielded[j].status = "listing_done")
        /\ (j = 2) <=> (yielded[j].status = "prefiltered")
        /\ j >= 3 => yielded[j].status \in CandidateStatuses \cup {"done"}
        /\ yielded[j].status = "done" => j = Len(yielded)
  /\ gpc = "completed" => DoneYielded
  /\ DoneYielded => gpc \in {"completed", "returned"}
  /\ gpc = "threw" => ~DoneYielded

\* C8 witness: an uncancelled run over three survivors ended with done as its ninth event
C8_Witness ==
  /\ gpc = "completed"
  /\ ~returnRequested
  /\ Len(survivors) = 3
  /\ Len(yielded) = 9
  /\ yielded[9].status = "done"

\* C9: done is yielded only when every survivor has been processed, and its
\* payload accounts for each survivor exactly once: meta.filtered is the
\* number of survivors and models plus meta.errors has meta.filtered entries,
\* one per survivor.
C9_DoneAccountsForAll ==
  \A j \in 1..Len(yielded) :
    yielded[j].status = "done" =>
      LET d == yielded[j].data
          ids == [k \in 1..Len(d.models) |-> d.models[k].id]
                 \o [k \in 1..Len(d.meta.errors) |-> d.meta.errors[k].modelId]
      IN
      /\ processed = Len(survivors)
      /\ d.meta.filtered = Len(survivors)
      /\ Len(d.models) + Len(d.meta.errors) = d.meta.filtered
      /\ \A i \in 1..Len(survivors) :
           Cardinality({k \in 1..Len(ids) : ids[k] = survivors[i].modelId}) = 1

\* C9 witness: done reported two classified models and one error for three survivors
C9_Witness ==
  /\ DoneYielded
  /\ Len(survivors) = 3
  /\ Len(yielded[Len(yielded)].data.models) = 2
  /\ Len(yielded[Len(yielded)].data.meta.errors) = 1

\* C10: every survivor is taken from the cursor by exactly one worker: no two
\* workers hold the same index, at most one config_fetching and at most one
\* classified-or-error event exist per survivor, the config_fetching one
\* first, every index below the cursor is either held by a worker or has its
\* terminal event, and once the pool has finished every survivor has both.
C10_EachSurvivorOnce ==
  /\ \A w1, w2 \in Workers :
        (w1 # w2 /\ pool[w1].pc \notin {"none", "take", "exited"}
                 /\ pool[w2].pc \notin {"none", "take", "exited"})
          => pool[w1].i # pool[w2].i
  /\ \A i \in 0..(Len(survivors) - 1) :
        LET fetching == Positions(Emitted, "config_fetching", i)
            terminal == TerminalPositions(Emitted, i)
            holders == {w \in Workers : pool[w].pc \notin {"none", "take", "exited"} /\ pool[w].i = i}
        IN
        /\ Cardinality(fetching) <= 1
        /\ Cardinality(terminal) <= 1
        /\ \A t \in terminal : \E f \in fetching : f < t
        /\ i < idx => (Cardinality(holders) + Cardinality(terminal) = 1)
        /\ i >= idx => (holders = {} /\ fetching = {} /\ terminal = {})
        /\ (gpc \in {"drain", "awaitPool", "completed"} \/ DoneYielded)
             => (Cardinality(fetching) = 1 /\ Cardinality(terminal) = 1)

\* C10 witness: two workers shared three survivors and every survivor got both events
C10_Witness ==
  /\ params.concurrency = 2
  /\ Len(survivors) = 3
  /\ \A w \in Workers : pool[w].pc = "exited"
  /\ \A i \in 0..2 : Cardinality(Positions(Emitted, "config_fetching", i)) = 1
                      /\ Cardinality(TerminalPositions(Emitted, i)) = 1
  /\ Len(results) = 2
  /\ results[1].id = "org/plain"

\* C11: once the generator has observed the cancellation (its finally block
\* has run after return()), no worker takes a new survivor from the cursor
\* and no new metadata request is issued.
C11_NoStartAfterCancel ==
  [][gpc = "returned" =>
       /\ idx < Len(survivors) => idx' = idx
       /\ inFlight' \subseteq inFlight
       /\ \A w \in Workers : pool'[w].pc = "fetching" => pool[w].pc = "fetching"]_vars

\* C12: a request that is in flight when the cancellation is requested has its
\* abort signal fired: after the cancel no listing page is delivered, no
\* metadata request settles without having been aborted, and once the
\* generator has ended no request of the run is left un-aborted.
C12_InFlightAborted ==
  [][returnRequested =>
       /\ gpc = "listFetch" => listing' = listing
       /\ \A w \in Workers :
            (pool[w].pc = "fetching" /\ pool'[w] # pool[w] /\ pool'[w].pc # "hung")
              => w \in aborted
       /\ gpc' = "returned" => inFlight' \subseteq aborted']_vars

\* C13: after cancel() was called on a listChatModels call whose promise was
\* still pending, the promise eventually settles.
C13_CancelledCallSettles ==
  \A id \in CallIds :
    (calls[id].cancelCalled /\ calls[id].promise = "pending")
      ~> (calls[id].promise # "pending")

\* C14: a metadata request that never responds is ended by its per-request
\* timeout: its candidate leaves the request, and the run reaches done or
\* another end.
C14_HungRequestTimesOut ==
  \A w \in Workers :
    (pool[w].pc = "hung") ~> (pool[w].pc # "hung" /\ gpc \in Finished_gpc)

\* the workers that acquired a token and have not released it yet
Holders == {w \in Workers : pool[w].pc \in {"emitFetching", "fetching", "backoff", "hung"}}

\* C15: acquisitions are gated by the current budget: a worker acquires a
\* token for a new candidate (directly, or when it is resumed from the wait
\* queue) only while fewer than effectiveConcurrency candidates hold one.
C15_ReducedBudgetGatesStarts ==
  [][\A w \in Workers :
       (\/ pool[w].pc = "take" /\ pool'[w].pc = "emitFetching"
        \/ pool[w].pc = "woken" /\ pool'[w].pc \in {"fetching", "take"})
         => Cardinality(Holders) < effectiveConcurrency]_vars

\* a step in which a metadata response with status 429 is recorded
Records429 == counters'.configFetch429 = counters.configFetch429 + 1

\* C16 as stated: whenever a 429 is recorded and the window then holds ten or
\* more of them, effectiveConcurrency is half the configured concurrency
\* (floor, minimum 1) and the backoff period of 30 seconds is in force.
C16_HalfOfConfigured ==
  [][(Records429 /\ Len(recent429s') >= RATE_THRESHOLD)
       => /\ effectiveConcurrency' = Max(1, initialConcurrency \div 2)
          /\ rateLimitedUntil' = clock + BACKOFF_WINDOW]_vars

\* C16 amended: every 429 recorded while the window then holds ten or more of
\* them halves the current effectiveConcurrency (floor, minimum 1) and starts
\* the 30-second backoff period anew, so the tenth leaves half the configured
\* concurrency and every further one in the window halves again; a 429 below
\* the threshold changes neither.
C16_HalvesCurrent ==
  [][Records429 =>
       IF Len(recent429s') >= RATE_THRESHOLD
       THEN /\ effectiveConcurrency' = Max(1, effectiveConcurrency \div 2)
            /\ rateLimitedUntil' = clock + BACKOFF_WINDOW
            /\ (counters'.configFetch429 = RATE_THRESHOLD
                  => effectiveConcurrency' = Max(1, initialConcurrency \div 2))
       ELSE /\ effectiveConcurrency' = effectiveConcurrency
            /\ rateLimitedUntil' = rateLimitedUntil]_vars

\* C16 witness: with concurrency 4, eleven 429 in one window left
\* effectiveConcurrency at 1 with the backoff period in force
C16_Witness ==
  /\ initialConcurrency = 4
  /\ counters.configFetch429 = 11
  /\ Len(recent429s) = 11
  /\ effectiveConcurrency = 1
  /\ clock < rateLimitedUntil

C18_RateLimitedListingProceeds ==
  [][/\ (gpc = "listBackoff" /\ lattempt = RETRIES /\ gpc' # gpc)
          => (gpc' = "listingDone" /\ listing' = listing)
     /\ (gpc \notin {"listFetch", "listBackoff"}) => gpc' # "threw"
     /\ (gpc' = "completed" /\ gpc # "completed")
          => /\ yielded'[1].status = "listing_done"
             /\ yielded'[1].data = Len(listing)
             /\ yielded'[2].status = "prefiltered"
             /\ yielded'[Len(yielded')].status = "done"]_vars

\* C18 witness: the listing stopped short of maxListing after a page was
\* rate-limited on every attempt, and the run completed with done
C18_Witness ==
  /\ gpc = "completed"
  /\ Len(listing) < MAX_TOTAL_TO_FETCH
  /\ Len(listing) > 0
  /\ yielded[Len(yielded)].status = "done"
  /\ yielded[Len(yielded)].data.meta.fetched = Len(listing)

\* C19: a listing error is fatal only when nothing was collected: a run that
\* ended with the listing error thrown has an empty listing.
C19_FatalOnlyIfEmpty ==
  gpc = "threw" => Len(listing) = 0

\* C20: the metadata paths of a candidate are tried in the order 1
\* (config.json), 2 (config/config.json), 3 (adapter_config.json): the first
\* request goes to path 1, a retry stays on its path, a new path is always
\* the next one and starts at attempt 0, and a candidate whose probe ended
\* with Ok (200) or AuthRequired (401/403) gets no further request.
C20_PathOrder ==
  [][\A w \in Workers :
       /\ (pool'[w].pc = "fetching" /\ pool[w].pc \in {"emitFetching", "woken"})
            => (pool'[w].url = 1 /\ pool'[w].attempt = 0 /\ pool'[w].i = pool[w].i)
       /\ (pool'[w].pc = "fetching" /\ pool[w].pc \in {"fetching", "backoff"} /\ pool'[w] # pool[w])
            => /\ pool'[w].i = pool[w].i
               /\ \/ pool'[w].url = pool[w].url + 1 /\ pool'[w].attempt = 0
                  \/ /\ pool[w].pc = "backoff"
                     /\ pool'[w].url = pool[w].url
                     /\ pool'[w].attempt = pool[w].attempt + 1
       /\ pool'[w].pc = "fetching" => pool'[w].url \in 1..3
       /\ (pool[w].pc = "fetching" /\ pool'[w] # pool[w] /\ Len(results') > Len(results)
             /\ results'[Len(results')].fetchStatus \in {"ok", "401", "403"})
            => /\ pool'[w].pc = "take"
               /\ inFlight' = inFlight \ {w}
               /\ \E j \in 1..Len(events') :
                    events'[j].status = "classified" /\ events'[j].i = pool[w].i]_vars

\* C20 witness: a candidate answered 404 twice and is probed on the third
\* path while another candidate ended as auth-protected
C20_Witness ==
  /\ \E w \in Workers : pool[w].pc = "fetching" /\ pool[w].url = 3
  /\ \E j \in 1..Len(results) : results[j].classification = "auth-protected"

\* ----------------------------------------------------- classification claims
\* C21: a metadata request that fails with a status other than 200, 401, 403,
\* 404 and 429 (500 for example) or with a network failure is retried on the
\* same path like a 429: a candidate gets the transient-error outcome
\* (fetchStatus "error") only from the last attempt of a path, after RETRIES
\* retries.
C21_ErrorOnlyAfterRetries ==
  [][\A w \in Workers :
       (/\ pool[w].pc = "fetching"
        /\ pool'[w] # pool[w]
        /\ Len(results') > Len(results)
        /\ results'[Len(results')].fetchStatus = "error")
         => pool[w].attempt = RETRIES]_vars

\* C22: a candidate whose probe found no config at any path (NotFound) is
\* classified generation with confidence medium when its declared pipeline
\* tag is text-generation, and unknown with confidence low when the tag does
\* not indicate text generation.
C22_FallbackMedium ==
  (retEntry.returned /\ argOutcome.resp = "404")
    => /\ argRawModel.pipeline_tag = "text-generation"
            => (retEntry.value.classification = "gen" /\ retEntry.value.confidence = "medium")
       /\ ~LowerIncludesTextGeneration(argRawModel.pipeline_tag)
            => (retEntry.value.classification = "unknown" /\ retEntry.value.confidence = "low")

\* C23: whenever the metadata probe of a candidate ends with a 401 or a 403
\* answer, classifyModel returns auth-protected with confidence high,
\* whatever the identifier, the pipeline tag and the siblings of the
\* candidate are.
C23_AuthPrecedence ==
  (retEntry.returned /\ argOutcome.resp \in {"401", "403"})
    => /\ retEntry.value.classification = "auth-protected"
       /\ retEntry.value.confidence = "high"
       /\ retEntry.value.id = argRawModel.modelId

\* C23 witness: a 403 for a candidate with an allow-listed family in its name
\* and a text-generation tag
C23_Witness ==
  /\ retEntry.returned
  /\ argOutcome.resp = "403"
  /\ argRawModel.modelId = "meta/llama"
  /\ argRawModel.pipeline_tag = "text-generation"
  /\ retEntry.value.classification = "auth-protected"

\* C24: with a retrieved config (200), model_type bert (deny set) gives
\* encoder/high and model_type llama (allow set) gives gen/high, whatever the
\* pipeline tag of the candidate and the architectures of the config are.
C24_ModelTypePrecedence ==
  (retEntry.returned /\ argOutcome.resp = "200")
    => /\ argOutcome.cfg.model_type = "bert"
            => (retEntry.value.classification = "encoder" /\ retEntry.value.confidence = "high")
       /\ argOutcome.cfg.model_type = "llama"
            => (retEntry.value.classification = "gen" /\ retEntry.value.confidence = "high")

\* C24 witness: model_type bert wins over a text-generation tag and over an
\* architectures list that starts with an allow-listed name
C24_Witness ==
  /\ retEntry.returned
  /\ argOutcome.resp = "200"
  /\ argOutcome.cfg.model_type = "bert"
  /\ argOutcome.cfg.architectures.isArray
  /\ argOutcome.cfg.architectures.items # <<>>
  /\ Head(argOutcome.cfg.architectures.items) = "Llama"
  /\ argRawModel.pipeline_tag = "text-generation"
  /\ retEntry.value.classification = "encoder"

\* the family sets of the classification rules, as the claims name them
AllowFamilies == {"gpt2", "gptj", "gpt_neox", "llama", "qwen", "mistral", "phi", "gpt", "t5",
                  "bart", "pegasus"}
DenyFamilies == {"bert", "roberta", "distilbert", "electra", "albert", "deberta", "mobilebert",
                 "convbert", "sentence-transformers"}
\* the positions of the architectures entries that match one of the sets
ArchMatches(items) ==
  {i \in 1..Len(items) : ToLowerCase(items[i]) \in AllowFamilies \cup DenyFamilies}
FirstArchMatch(items) == CHOOSE i \in ArchMatches(items) : \A j \in ArchMatches(items) : i <= j

\* C25: with a retrieved config (200) whose model_type is in neither set,
\* the architectures entries are scanned in order and lower-cased: the first
\* entry that is in the allow set or in the deny set decides (gen/high or
\* encoder/high), and when no entry matches, or there is no architectures
\* array, the result is unknown/low.
C25_FirstArchitectureWins ==
  (/\ retEntry.returned
   /\ argOutcome.resp = "200"
   /\ argOutcome.cfg.model_type \notin AllowFamilies \cup DenyFamilies)
    => LET items == argOutcome.cfg.architectures.items IN
       IF argOutcome.cfg.architectures.isArray /\ ArchMatches(items) # {}
       THEN /\ retEntry.value.confidence = "high"
            /\ retEntry.value.classification =
                 IF ToLowerCase(items[FirstArchMatch(items)]) \in AllowFamilies THEN "gen"
                 ELSE "encoder"
       ELSE /\ retEntry.value.classification = "unknown"
            /\ retEntry.value.confidence = "low"

\* C25 witness: the list <<LlamaForCausalLM, BERT>>: the first name matches
\* nothing, the second one, lower-cased, is in the deny set
C25_Witness ==
  /\ retEntry.returned
  /\ argOutcome.resp = "200"
  /\ argOutcome.cfg.model_type = "custom"
  /\ argOutcome.cfg.architectures.isArray
  /\ argOutcome.cfg.architectures.items = <<"LlamaForCausalLM", "BERT">>
  /\ retEntry.value.classification = "encoder"

\* C26: in every classification entry the run has produced (the results list
\* and the classified events), classification is auth-protected if and only
\* if fetchStatus is 401 or 403.
C26_AuthIffAuthStatus ==
  /\ \A j \in 1..Len(results) :
       results[j].classification = "auth-protected" <=> results[j].fetchStatus \in {"401", "403"}
  /\ \A j \in 1..Len(Emitted) :
       Emitted[j].status = "classified"
         => (Emitted[j].data.classification = "auth-protected"
               <=> Emitted[j].data.fetchStatus \in {"401", "403"})

\* C26 witness: one entry from a 403 answer, another one from a retrieved config
C26_Witness ==
  /\ \E j \in 1..Len(results) :
       results[j].classification = "auth-protected" /\ results[j].fetchStatus = "403"
  /\ \E j \in 1..Len(results) :
       results[j].classification # "auth-protected" /\ results[j].fetchStatus = "ok"

\* ---------------------------------------------------------- prefilter claims
\* the rule of the prefilter, as the claims state it
DenyTags == {"feature-extraction", "fill-mask", "sentence-similarity", "masked-lm"}
EmbeddingName(id) == id \in {"sentence-transformers/emb", "org/sentence-transformers-mini"}
SuggestsTokenizer(name) ==
  name \in {"tokenizer.json", "vocab.txt", "merges.txt", "sentencepiece.bpe.model"}
IndicatesTextGeneration(tag) == tag \in {"text-generation", "Text-Generation"}
Passes(m) ==
  /\ m.pipeline_tag \notin DenyTags
  /\ ~EmbeddingName(m.modelId)
  /\ \/ \E j \in 1..Len(m.siblings) : SuggestsTokenizer(m.siblings[j])
     \/ IndicatesTextGeneration(m.pipeline_tag)
Passing(lst) == SelectSeq(lst, Passes)

C28_CappedPrefix ==
  retSurvivors.returned
    => /\ Len(retSurvivors.value) <= argMaxCandidates
       /\ retSurvivors.value
            = SubSeq(Passing(argListing), 1, Min(argMaxCandidates, Len(Passing(argListing))))

\* C28 witness: three entries pass, the cap is 2 and the first two are kept
C28_Witness ==
  /\ retSurvivors.returned
  /\ argMaxCandidates = 2
  /\ Len(Passing(argListing)) = 3
  /\ argListing[1] # argListing[2]
  /\ retSurvivors.value = <<argListing[1], argListing[2]>>

\* ------------------------------------------------------------ options claim
HasYielded(status) == \E j \in 1..Len(yielded) : yielded[j].status = status
Started == {w \in Workers : pool[w].pc # "none"}

\* C29: an option value that is not a positive number is replaced by the
\* default of the option and the run goes as if the option had been omitted:
\* with maxListing 0 the listing of a non-empty catalogue is not empty, with
\* maxCandidates 0 the survivors are those of the default cap 250, and with
\* concurrency 0 the pool has as many workers as the default 12 allows.
C29_InvalidOptionsDefaulted ==
  /\ (params.maxListing <= 0 /\ HasYielded("listing_done")) => Len(listing) > 0
  /\ (params.maxCandidates <= 0 /\ HasYielded("prefiltered"))
       => survivors = Prefilter(listing, <<>>, DEFAULT_MAX_CANDIDATES)
  /\ (params.concurrency <= 0 /\ params.maxCandidates > 0 /\ Started # {})
       => Cardinality(Started) = Min(DEFAULT_CONCURRENCY, Max(1, Len(survivors)))

\* ------------------------------------------------------- determinism claim
\* what the fixed endpoint makes of each identifier: org/gen is answered 200
\* with architectures <<LlamaForCausalLM, BERT>>, org/plain 404 on all three
\* paths, org/extra 404 and then 403
ExpectedOutcome(id) ==
  CASE id = "org/gen" -> [classification |-> "encoder", confidence |-> "high", fetchStatus |-> "ok"]
    [] id = "org/plain" -> [classification |-> "unknown", confidence |-> "low", fetchStatus |-> "404"]
    [] id = "org/extra" -> [classification |-> "auth-protected", confidence |-> "high", fetchStatus |-> "403"]
    [] OTHER -> [classification |-> "none", confidence |-> "none", fetchStatus |-> "none"]
OutcomeOf(e) ==
  [classification |-> e.classification, confidence |-> e.confidence, fetchStatus |-> e.fetchStatus]

\* C30: against an endpoint whose answer depends only on the requested url,
\* every entry a run produces for an identifier has the one classification,
\* confidence and fetchStatus that the endpoint's answers for this identifier
\* determine, in every pagination of the listing, with every pool size and
\* in every interleaving of the workers: two runs cannot disagree on any
\* identifier, and no identifier is classified twice in a run.
C30_Deterministic ==
  /\ \A j \in 1..Len(results) : OutcomeOf(results[j]) = ExpectedOutcome(results[j].id)
  /\ \A j, k \in 1..Len(results) : results[j].id = results[k].id => j = k
  /\ \A j \in 1..Len(yielded) :
       yielded[j].status = "classified"
         => (/\ yielded[j].data.id = yielded[j].modelId
             /\ OutcomeOf(yielded[j].data) = ExpectedOutcome(yielded[j].modelId))

\* C30 witness: two workers ran and the later survivor was classified before
\* the earlier one
C30_Witness ==
  /\ params.concurrency = 2
  /\ Len(results) = 3
  /\ results[1].id = "org/plain"
  /\ results[2].id = "org/gen"
  /\ results[3].id = "org/extra"
  /\ HasYielded("done")

\* ------------------------------------------------- worker message claims
TerminalInChannel(id) ==
  {j \in 1..Len(toMain) : toMain[j].id = id /\ toMain[j].type \in {"response", "error"}}

\* C31: for every listChatModels request id the worker posts exactly one
\* terminal message (response or error), also when a cancelListChatModels
\* message for the id arrives during the run: the messages the worker has
\* posted and the main thread has not yet handled never hold two terminal
\* messages of one id.
C31_OneTerminalMessage ==
  \A id \in CallIds : Cardinality(TerminalInChannel(id)) <= 1

\* -------------------------------------------------------- retry claims
\* C32: the no-config outcome (fetchStatus "404") is produced only when the
\* fallback paths answered 404: the step that records a no-config entry is
\* the arrival of a 404 answer, never the end of the backoff that follows
\* the last rate-limited attempt of a path.
C32_NotFoundOnlyFrom404 ==
  [][\A w \in Workers :
       (/\ pool'[w] # pool[w]
        /\ Len(results') > Len(results)
        /\ results'[Len(results')].fetchStatus = "404")
         => pool[w].pc = "fetching"]_vars

\* ------------------------------------------------------- listing claims
\* C33: the accumulated listing never holds more than
\* min(maxListing, 5000) entries, and neither totalFound of listing_done nor
\* meta.fetched of done exceeds that limit.
C33_ListingWithinLimit ==
  LET limit == Min(params.maxListing, MAX_LISTING_CAP) IN
  /\ Len(listing) <= limit
  /\ \A j \in 1..Len(yielded) :
       /\ yielded[j].status = "listing_done" => yielded[j].data <= limit
       /\ yielded[j].status = "done" => yielded[j].data.meta.fetched <= limit

\* ------------------------------------------------------- ModelCache claims (2)
LoadRequests == {r \in 1..Len(requests) : requests[r].type = "loadModel"}
LastLoadRequest == CHOOSE r \in LoadRequests : \A q \in LoadRequests : q <= r

\* C34: once every loadModel request received so far has completed with
\* success, selectedModel is the model named by the loadModel request that
\* was received last, in whatever order the loads finished.
C34_LastRequestedSelected ==
  (/\ LoadRequests # {}
   /\ \A r \in LoadRequests : requests[r].outcome = "loaded")
    => selectedModel = requests[LastLoadRequest].modelName

\* C35: a failed load of X changes only the cache entry of X: in the step
\* that handles the failure (the entry of X goes from the pending promise to
\* absent) the entry of every other identifier, pending or ready, stays as
\* it is.
C35_FailureTouchesOnlyX ==
  [][\A m \in Models :
       (cache[m].kind = "promise" /\ cache'[m].kind = "absent")
         => \A n \in Models \ {m} : cache'[n] = cache[n]]_vars

\* C35 witness: the load of one identifier was rejected and its entry is gone
\* while a load of another identifier, started earlier, is still pending
C35_Witness ==
  \E j, k \in 1..Len(loads) :
    /\ k < j
    /\ loads[j].modelName # loads[k].modelName
    /\ loads[j].state = "rejected"
    /\ cache[loads[j].modelName].kind = "absent"
    /\ loads[k].state = "pending"
    /\ cache[loads[k].modelName].kind = "promise"

\* ------------------------------------------------- worker connection claims
Pending == {id \in CallIds : calls[id].entry}
Promises == [id \in CallIds |-> calls[id].promise]

\* C36: each pending request of the main-thread connection is settled at
\* most once. When the listener handles a message: a response or an error
\* whose id has a pending entry removes exactly that entry and settles the
\* promise of that id, which was pending until then; a progress message, a
\* status message or any other type leaves the pending map and every promise
\* as they are; a message whose id has no pending entry changes nothing; and
\* a promise that is settled never changes again.
C36_SettledAtMostOnce ==
  [][/\ (toMain # <<>> /\ toMain' = Tail(toMain) /\ UNCHANGED <<tasks, toWorker>>)
          => LET msg == Head(toMain) IN
             /\ (msg.type \in {"response", "error"} /\ msg.id \in Pending)
                  => /\ Pending' = Pending \ {msg.id}
                     /\ calls[msg.id].promise = "pending"
                     /\ calls'[msg.id].promise
                          = IF msg.type = "response" THEN "resolved" ELSE "rejected"
                     /\ \A id \in CallIds \ {msg.id} : calls'[id] = calls[id]
             /\ msg.type \notin {"response", "error"}
                  => (Pending' = Pending /\ Promises' = Promises)
             /\ msg.id \notin Pending => calls' = calls
     /\ \A id \in CallIds :
          calls[id].promise \in {"resolved", "rejected"}
            => calls'[id].promise = calls[id].promise]_vars

\* C36 witness: the runPrompt request 1 was resolved by its response, the
\* listChatModels request 2 got its progress messages and was then cancelled,
\* so that its pending entry is gone while its promise is still pending, and
\* every message posted so far has been handled
C36_Witness ==
  /\ calls[1].api = "send" /\ calls[1].promise = "resolved" /\ ~calls[1].entry
  /\ calls[2].api = "listChatModels" /\ calls[2].cancelCalled
  /\ calls[2].progress = MaxProgress
  /\ calls[2].promise = "pending" /\ ~calls[2].entry
  /\ toMain = <<>>

C38_NoTickAfterFinish ==
  [][~(gpc \in Finished_gpc /\ Tick)]_vars

\* ------------------------------------------------ metadata probe claims (3)
\* C39: fetchConfigForModel always ends by returning an outcome and never
\* throws: every candidate that is finished adds one entry built from the
\* returned outcome to the results and none to the errors; it issues at most
\* RETRIES + 1 requests per path, on at most 3 paths per candidate.
C39_ReturnsWithinBounds ==
  [][/\ \A w \in Workers :
          /\ pool'[w].sentPath <= RETRIES + 1
          /\ pool'[w].url <= 3
     /\ processed' > processed
          => /\ Len(results') = Len(results) + 1
             /\ errors' = errors]_vars

====
